---- MODULE Spec2Model ----
(***************************************************************************)
(* Resilience layer of deepiri-core-api: the outbound HTTP client          *)
(* (utils/httpClient + utils/proxyClient: p-retry inside an opossum        *)
(* circuit breaker, one breaker per URL origin / per service name) and the *)
(* cache client (services/cacheService: redis commands behind a breaker);  *)
(* the request rate limiters (middleware rateBot and perEndpointLimiter:   *)
(* rate-limiter-flexible counters in redis and in memory) and the token    *)
(* revocation list (services/tokenRevocationService).                      *)
(*                                                                         *)
(* Time is abstract: a timer (backoff delay, breaker invocation timeout,   *)
(* breaker reset timeout, rolling-window rotation) is an action that may   *)
(* fire whenever the code has armed it.  Guards keep the orderings that    *)
(* the configured durations force (breaker timeout 5 s < rolling window    *)
(* 10 s < reset timeout 30 s).                                             *)
(***************************************************************************)
EXTENDS Integers, Sequences, FiniteSets, TLC

\* ------------------------------------------------------------------ bounds
MaxCalls == 2
SustainedCalls == 7
MaxPending == 3
MaxCacheCalls == 2
TrialCalls == 3         \* calls to a dependency that fails and recovers
MaxInFlight == 2        \* requests a middleware is handling at a time
TicksPerSecond == 2     \* resolution of the clock
WindowSeconds == 2      \* duration of the redis limiters (900 in the source)
MainPoints == 2         \* points of rl_main (100 in the source)
BurstPoints == 1        \* points of rl_burst (10 in the source)
UsersPoints == 1        \* points of endpoint_users (50 in the source)
AdventuresPoints == 2   \* points of endpoint_adventures (200 in the source)
BlockSeconds == 1        \* blockDuration of the endpoint limiters (60, 30)
MaxOver == 2            \* consumptions followed beyond a limiter's points
MaxOps == 4              \* revokeToken / isTokenRevoked invocations
MaxItems == 2           \* items of the UserItem collection
MaxTtl == 2             \* longest revocation, in seconds
MaxThrottled == 3       \* requests the throttler is followed for
MaxClock == 4           \* the clock of the throttler stops here
WindowTicks == 2        \* windowMs of the throttler, in ticks of its clock
MaxOpen == 1            \* requests passed on unlimited that are counted per window

\* ------------------------------------------------------- program constants
DEFAULT_RETRIES == 2
ErrorThresholdPercentage == 50
BurstSeconds == 1
Base == 100                        \* reconnectStrategy: base, in ms
DefaultMaxReconnectAttempts == 12  \* REDIS_RECONNECT_MAX_ATTEMPTS
DefaultMaxReconnectDelay == 30000  \* REDIS_RECONNECT_MAX_DELAY_MS

\* ------------------------------------------------------------ input domains
Origins  == {"https://a.test", "https://b.test"}
Services == {"engagement"}

\* A transport outcome: an HTTP status, or 0 for a transport failure
\* (network error, request timeout): axios rejects, there is no response.
TransportError == 0
Outcomes == {200, 404, 500, TransportError}

\* What httpRequest is called with: an absolute URL of some origin, a service
\* name, a URL that does not parse as absolute, or neither url nor serviceName.
Vias == {"host", "service", "fallback", "nourl"}

VARIABLES
  hostBreakers,   \* httpClient: Map<origin, CircuitBreaker>
  breakers,       \* ProxyClient.breakers: Map<service, CircuitBreaker>
  nBreakers,      \* number of CircuitBreaker objects constructed so far
  calls,          \* one record per httpRequest invocation
  client,         \* CacheService.client is set (not null)
  isConnected,    \* CacheService.isConnected
  cacheBreaker,   \* CacheService._breaker, or NoBreaker while undefined
  initPc,         \* where CacheService.initialize() stands
  cacheCalls,     \* one record per cacheService.get / set / del invocation
  storeUp,        \* the redis server of the rate limiters can be reached
  redisReady,     \* per middleware module: its redisReady promise
  store,          \* redis: rate-limiter key -> consumed points and time to live
  memory,         \* per process: RateLimiterMemory key -> consumed, time to live
  admitted,       \* per redis key: consumptions accepted since the key was set
  tally,          \* per actor: what rateBot did with its requests in this window
  policy,         \* the degradation policy the deployment asks for
  mounted,        \* the middleware the deployment routes requests through
  reqs,           \* one record per request a middleware is handling
  revoked,        \* redis of tokenRevocationService: key -> value, time to live
  lastTtl,        \* per token id: expiresIn of its latest revocation (0: none)
  ops,            \* one record per revokeToken / isTokenRevoked invocation
  items,          \* the UserItem collection, in natural order
  jwtExpiresIn,   \* process.env.JWT_EXPIRES_IN (<<>>: not set)
  sweep,          \* the revokeAllUserTokens invocation
  socket,         \* the cache client's socket and its reconnect loop
  requestTimes,   \* throttler: key -> timestamps of the forwarded requests
  maxRequests,    \* throttler: maxRequests of the throttleRequests in use (0: none)
  throttled,      \* one record per request the throttler handles
  clock           \* throttler: Date.now(), in ticks

httpVars  == <<hostBreakers, breakers, nBreakers, calls>>
cacheVars == <<client, isConnected, cacheBreaker, initPc, cacheCalls>>
limiterVars ==
  <<storeUp, redisReady, store, memory, admitted, tally, policy, mounted, reqs>>
revocationVars == <<revoked, lastTtl, ops>>
sweepVars == <<items, jwtExpiresIn, sweep>>
reconnectVars == <<socket>>
throttleVars == <<requestTimes, maxRequests, throttled, clock>>
vars == <<hostBreakers, breakers, nBreakers, calls,
          client, isConnected, cacheBreaker, initPc, cacheCalls,
          storeUp, redisReady, store, memory, admitted, tally, policy, mounted, reqs,
          revoked, lastTtl, ops, items, jwtExpiresIn, sweep,
          socket, requestTimes, maxRequests, throttled, clock>>
notHttpVars == <<cacheVars, limiterVars, revocationVars, sweepVars, reconnectVars, throttleVars>>
notCacheVars == <<httpVars, limiterVars, revocationVars, sweepVars, reconnectVars, throttleVars>>
notLimiterVars == <<httpVars, cacheVars, revocationVars, sweepVars, reconnectVars, throttleVars>>
notRevocationVars == <<httpVars, cacheVars, limiterVars, sweepVars, reconnectVars, throttleVars>>
notSweepVars == <<httpVars, cacheVars, limiterVars, reconnectVars, throttleVars>>
notReconnectVars ==
  <<httpVars, cacheVars, limiterVars, revocationVars, sweepVars, throttleVars>>
notThrottleVars ==
  <<httpVars, cacheVars, limiterVars, revocationVars, sweepVars, reconnectVars>>

\* ------------------------------------------------------------ small helpers
Last(s) == s[Len(s)]

RECURSIVE CountIn(_, _)
\* number of events of the window w whose kind is in the set ks
CountIn(w, ks) ==
  IF w = <<>> THEN 0
  ELSE (IF Head(w).kind \in ks THEN 1 ELSE 0) + CountIn(Tail(w), ks)

\* ------------------------------------------------------------------ results
\* What a call resolved or rejected with.  attempt is the number of the
\* transport attempt the response or error object came from (0: from none).
NoResult == [kind |-> "none", status |-> 0, err |-> "none", names |-> "none", attempt |-> 0]
Response(s, k) ==
  [kind |-> "resp", status |-> s, err |-> "none", names |-> "none", attempt |-> k]
Failure(e, s, n, k) ==
  [kind |-> "error", status |-> s, err |-> e, names |-> n, attempt |-> k]

\* a retry policy that also throws, and so retries, client errors
RetryClientErrors(o) == o = TransportError \/ o >= 400

\* attempt(): a response below 500 is returned, everything else is thrown.
Retryable(o) == o = TransportError \/ o >= 500

\* attempt(): a response with status >= 500 is thrown as Error("HTTP <status>"),
\* a transport failure is the error axios rejected with.
AttemptError(o, k) ==
  IF o = TransportError THEN Failure("NET", 0, "none", k) ELSE Failure("HTTP", o, "none", k)

\* validateStatus of the axios request of a path: the instances of the
\* breaker-guarded paths accept every status; the fallback's axios.request
\* passes none, so axios's default applies, which accepts 2xx only.
ValidateStatus(via, o) == IF via = "fallback" THEN o >= 200 /\ o < 300 ELSE TRUE

\* axios rejects a response its validateStatus refuses with an AxiosError
\* ("Request failed with status code <status>").
AxiosStatusError(o, k) == Failure("AXIOS", o, "none", k)

\* the transport request of a path delivers outcome o as a rejection
Rejected(via, o) == o = TransportError \/ ~ValidateStatus(via, o)

\* attempt() of a path throws on outcome o, and pRetry retries it
Throws(via, o) == Rejected(via, o) \/ Retryable(o)

\* the error attempt() of a path throws on outcome o of attempt k
Thrown(via, o, k) ==
  IF o # TransportError /\ ~ValidateStatus(via, o) THEN AxiosStatusError(o, k)
  ELSE AttemptError(o, k)

RECURSIVE Occurrences(_, _)
\* how many of the errors es came from outcome x (and so carry its message)
Occurrences(es, x) ==
  IF es = <<>> THEN 0
  ELSE (IF Head(es).outcome = x THEN 1 ELSE 0) + Occurrences(Tail(es), x)

RECURSIVE MainErrorFrom(_, _, _, _)
\* operation.mainError() of the retry package: scanning the errors in order,
\* keep the error whose message has so far been seen at least as often as the
\* kept one's.  Errors of equal outcome carry equal messages.
MainErrorFrom(es, i, best, bestCount) ==
  IF i > Len(es) THEN best
  ELSE LET n == Occurrences(SubSeq(es, 1, i), es[i].outcome)
       IN  IF n >= bestCount THEN MainErrorFrom(es, i + 1, i, n)
           ELSE MainErrorFrom(es, i + 1, best, bestCount)

\* a pRetry that rejects with the first error it saw
FirstError(es) == Thrown(es[1].via, es[1].outcome, es[1].attempt)

\* pRetry with the retries exhausted rejects with operation.mainError().
RetriesExhaustedError(es) ==
  LET e == es[MainErrorFrom(es, 1, 0, 0)] IN Thrown(e.via, e.outcome, e.attempt)

\* ------------------------------------------------- the opossum breaker
\* A CircuitBreaker object.  window is its rolling statistics window: the
\* events recorded in the last rollingCountTimeout (10 buckets of 1 s), oldest
\* first, each with the call that caused it.  Event kinds:
\*   fire      a call was let through            (stats.fires)
\*   rejected  a call was refused                (stats.fires and stats.rejects)
\*   success   the action resolved in time       (stats.successes)
\*   failure   the action rejected in time       (stats.failures)
\*   timeout   the invocation timeout elapsed    (stats.timeouts and stats.failures)
\* Only the fire of a call the breaker has not settled yet names its call.
NewBreaker(id) ==
  [id |-> id, state |-> "closed", pendingClose |-> FALSE, window |-> <<>>,
   notified |-> "none"]

Record(b, k, c) ==
  [b EXCEPT !.window = Append(@, [kind |-> k, call |-> IF k = "fire" THEN c ELSE 0])]

\* the breaker has settled call c: its fire is an event like any other
Settle(b, c) ==
  [b EXCEPT !.window = [i \in DOMAIN @ |-> IF @[i].call = c THEN [@[i] EXCEPT !.call = 0]
                                           ELSE @[i]]]

Fires(b)     == CountIn(b.window, {"fire", "rejected"})
Failures(b)  == CountIn(b.window, {"failure", "timeout"})
Successes(b) == CountIn(b.window, {"success"})
Rejects(b)   == CountIn(b.window, {"rejected"})
Timeouts(b)  == CountIn(b.window, {"timeout"})

\* breaker.opened / breaker.halfOpen / breaker.closed
Opened(b)   == b.state = "open"
HalfOpen(b) == b.state = "halfOpen"
Closed(b)   == b.state = "closed"

\* fire(): a call is let through when the breaker is closed, or half-open
\* with its single trial call still to be made.
Admits(b) == Closed(b) \/ b.pendingClose

\* fire(): 'fire' is counted, then the call is rejected ('reject') or goes on.
BreakerFire(b, c) ==
  IF Admits(b) THEN [Record(b, "fire", c) EXCEPT !.pendingClose = FALSE]
  ELSE Record(b, "rejected", c)

\* open(): arms the reset timer.   close(): clears it.  Each emits its
\* event when it changes the state; notified is the event the listeners
\* registered with breaker.on were last called with.
Open(b) ==
  IF Opened(b) THEN b
  ELSE [b EXCEPT !.state = "open", !.pendingClose = FALSE, !.notified = "open"]

\* a close() that emits nothing
CloseSilently(b) ==
  IF Closed(b) THEN b ELSE [b EXCEPT !.state = "closed", !.pendingClose = FALSE]

Close(b) ==
  IF Closed(b) THEN b
  ELSE [b EXCEPT !.state = "closed", !.pendingClose = FALSE, !.notified = "close"]

\* a fail() without the error-rate check: only a failed trial call opens
FailOfTrialOnly(b) == IF b.state = "halfOpen" THEN [b EXCEPT !.state = "open"] ELSE b

\* fail(): after 'failure' is counted, the breaker opens when the error rate
\* over the window exceeds errorThresholdPercentage (volumeThreshold is 0), or
\* when it is half-open.  failures / fires * 100 > pct, also for fires = 0.
Fail(b) ==
  IF Failures(b) * 100 > ErrorThresholdPercentage * Fires(b) \/ HalfOpen(b)
  THEN Open(b) ELSE b

\* the action rejected before the invocation timeout
BreakerFailure(b, c) == Fail(Record(b, "failure", c))

\* an invocation timeout the statistics do not count
TimedOutUncounted(b, c) == b

\* the invocation timeout (options.timeout) elapsed before the action settled
BreakerTimedOut(b, c) == Fail(Record(b, "timeout", c))

\* a success handler that leaves a half-open breaker half-open
SuccessKeepsState(b, c) == Record(b, "success", c)

\* the action resolved before the invocation timeout
BreakerSuccess(b, c) ==
  LET r == Record(b, "success", c) IN IF HalfOpen(r) THEN Close(r) ELSE r

\* the reset timer (options.resetTimeout) armed by open() elapsed
BreakerHalfOpen(b) ==
  [b EXCEPT !.state = "halfOpen", !.pendingClose = TRUE, !.notified = "halfOpen"]

\* ------------------------------------------------------ the two registries
Has(reg, t) == t \in DOMAIN reg

\* a registry whose keys all share one breaker object
PutShared(reg, t, b) == [x \in DOMAIN reg \cup {t} |-> b]

\* Map.set
Put(reg, t, b) == [x \in DOMAIN reg \cup {t} |-> IF x = t THEN b ELSE reg[x]]

\* a lookup that constructs a breaker on every call
GetBreakerFresh(reg, t, n) ==
  [x \in DOMAIN reg \cup {t} |->
     IF x = t THEN [id |-> n + 1, state |-> "closed", pendingClose |-> FALSE,
                    window |-> <<>>, notified |-> "none"]
     ELSE reg[x]]

\* getBreakerForHost(origin) / ProxyClient.getBreaker(service): the registry
\* after the call; n is the number of breakers constructed before it.
GetBreaker(reg, t, n) == IF Has(reg, t) THEN reg ELSE Put(reg, t, NewBreaker(n + 1))

Registry(via) == IF via = "host" THEN hostBreakers ELSE breakers

SetRegistry(via, reg) ==
  IF via = "host" THEN hostBreakers' = reg /\ UNCHANGED breakers
  ELSE breakers' = reg /\ UNCHANGED hostBreakers

Guarded(via) == via \in {"host", "service"}

TargetsOf(via) ==
  IF via = "host" THEN Origins ELSE IF via = "service" THEN Services ELSE {"none"}

\* a catch that rethrows the breaker's own error
Rethrown(e, t) == e

\* httpRequest / ProxyClient.request, catch: the breaker's EOPENBREAKER is
\* replaced by an error flagged isCircuitOpen (err = "CIRCUIT_OPEN") whose
\* message names the target; every other error is rethrown as it is.
CaughtError(e, t) ==
  IF e.err = "EOPENBREAKER" THEN Failure("CIRCUIT_OPEN", 0, t, 0) ELSE e

\* ------------------------------------------------------------------- calls
\* One httpRequest invocation.  errors is pRetry's list of the failures of the
\* attempts made so far (dropped with the operation once the action settles),
\* invocations the number of transport requests made for the call, timedOut
\* the breaker's timeoutError flag, bid the breaker object the call was fired
\* on, alone whether no other call was pending on that breaker at any time
\* while this one was, last the outcome of its latest transport request
\* (-1: none yet).
IdleCall ==
  [pc |-> "idle", via |-> "none", target |-> "none", bid |-> 0, errors |-> <<>>,
   invocations |-> 0, last |-> -1, timedOut |-> FALSE, alone |-> TRUE,
   result |-> NoResult]

\* the breaker has let the call through and has not settled it yet
Pending(cr) == Guarded(cr.via) /\ cr.pc \in {"attempt", "backoff"} /\ ~cr.timedOut

PendingOn(via, t) ==
  {c \in DOMAIN calls : Pending(calls[c]) /\ calls[c].via = via /\ calls[c].target = t}

Calls == DOMAIN calls

\* getBreakerStates(): the state of every breaker of hostBreakers
GetBreakerStates ==
  [o \in DOMAIN hostBreakers |->
     IF Opened(hostBreakers[o]) THEN "open"
     ELSE IF HalfOpen(hostBreakers[o]) THEN "halfOpen" ELSE "closed"]

\* ------------------------------------------------------------ cache client
NoBreaker == [id |-> 0, state |-> "undefined", pendingClose |-> FALSE, window |-> <<>>,
              notified |-> "none"]

CacheOps == {"get", "set", "del"}

\* What the backend does with a command: for GET a stored JSON text, nothing
\* stored, or a stored text that is not JSON; otherwise an acknowledgement;
\* for every command an error (command error, connection lost in mid-call).
Replies(op) == IF op = "get" THEN {"hit", "miss", "garbage", "error"} ELSE {"ok", "error"}

\* One cacheService call.  commands counts the commands sent to the backend,
\* fired whether breaker.fire was called, reply the backend's answer, ret what
\* the call returned to its caller ("null", "value", "void"), or "threw" if
\* it rejected.
IdleCacheCall ==
  [pc |-> "idle", op |-> "none", fired |-> FALSE, commands |-> 0,
   timedOut |-> FALSE, reply |-> "none", ret |-> "none"]

CacheCalls == DOMAIN cacheCalls

CachePending == {c \in CacheCalls : cacheCalls[c].pc = "exec" /\ cacheCalls[c].fired
                                     /\ ~cacheCalls[c].timedOut}

\* exec(): what the closure resolves with ("threw": it rejects)
ExecResult(op, reply) ==
  IF reply = "error" THEN "threw"
  ELSE IF op = "get"
       THEN IF reply = "hit" THEN "value" ELSE IF reply = "miss" THEN "null" ELSE "threw"
       ELSE "void"

\* a catch block that rethrows
Rethrows(op) == "threw"

\* the catch block of get / set / del: the error is logged, get returns null
Caught(op) == IF op = "get" THEN "null" ELSE "void"

\* the early returns of get / set / del
Skipped(op) == IF op = "get" THEN "null" ELSE "void"

\* a connection test that looks at the client object only
ClientMissing == ~client

\* get / set / del, first half: is the backend to be left alone?
NotConnected == ~isConnected \/ ~client
BreakerOpen  == cacheBreaker # NoBreaker /\ Opened(cacheBreaker)

\* ------------------------------------------------------------ rate limiters
\* The two middleware modules; each has a redis client and a redisReady
\* promise of its own.
Middlewares == {"rateBot", "perEndpoint"}
Procs == {1}
Actors == {"u1"}

\* A path is the sequence of its pieces, so that startsWith is the prefix
\* relation: <<"/api", "/users", "x">> is the path /api/usersx.
RateBotPaths == {<<"/api", "/auth", "/login">>, <<"/api", "/users", "x">>}
EndpointPaths == {<<"/api", "/users", "x">>, <<"/api", "/adventures">>, <<"/health">>}

\* A User-Agent header is the sequence of its characters.
UserAgents == {<<"c", "u", "r", "l">>, <<"x", "B", "o", "t">>,
               <<"S", "P", "I", "D", "E", "R">>, <<"c", "r", "a", "w", "l", "e", "r", "4">>}

\* a prefix test that never matches
NeverStartsWith(s, prefix) == FALSE

\* String.prototype.startsWith
StartsWith(s, prefix) ==
  /\ Len(prefix) <= Len(s)
  /\ SubSeq(s, 1, Len(prefix)) = prefix

\* String.prototype.includes
Includes(s, sub) ==
  \E i \in 0..(Len(s) - Len(sub)) : SubSeq(s, i + 1, i + Len(sub)) = sub

\* String.prototype.toLowerCase, on the letters that occur
LowerOf(ch) ==
  CASE ch = "B" -> "b" [] ch = "S" -> "s" [] ch = "P" -> "p" [] ch = "I" -> "i"
    [] ch = "D" -> "d" [] ch = "E" -> "e" [] ch = "R" -> "r" [] ch = "H" -> "h"
    [] ch = "T" -> "t" [] ch = "L" -> "l" [] ch = "A" -> "a" [] OTHER -> ch
ToLowerCase(s) == [i \in 1..Len(s) |-> LowerOf(s[i])]

\* a user-agent test that compares without lowering the case
IsBotCaseSensitive(ua) ==
  \/ Includes(ua, <<"b", "o", "t">>)
  \/ Includes(ua, <<"c", "r", "a", "w", "l", "e", "r">>)
  \/ Includes(ua, <<"s", "p", "i", "d", "e", "r">>)

\* isBotUserAgent(req)
IsBotUserAgent(ua) ==
  \/ Includes(ToLowerCase(ua), <<"b", "o", "t">>)
  \/ Includes(ToLowerCase(ua), <<"c", "r", "a", "w", "l", "e", "r">>)
  \/ Includes(ToLowerCase(ua), <<"s", "p", "i", "d", "e", "r">>)

\* rateBot: path.startsWith('/api/auth')
AuthPrefix == <<"/api", "/auth">>

\* The limiters: key prefix, points, duration and blockDuration in seconds.
\* rl_burst is the RateLimiterMemory of rateBot, the others are in redis.
Limiters == {"rl_main", "rl_burst", "endpoint_users", "endpoint_adventures"}
RedisLimiters == Limiters \ {"rl_burst"}
Points(l) ==
  CASE l = "rl_main" -> MainPoints [] l = "rl_burst" -> BurstPoints
    [] l = "endpoint_users" -> UsersPoints [] l = "endpoint_adventures" -> AdventuresPoints
Duration(l) == IF l = "rl_burst" THEN BurstSeconds ELSE WindowSeconds
BlockDuration(l) == IF l \in {"endpoint_users", "endpoint_adventures"} THEN BlockSeconds ELSE 0

\* endpointRules, in order
EndpointRules ==
  << [prefix |-> <<"/api", "/users">>, limiter |-> "endpoint_users"],
     [prefix |-> <<"/api", "/adventures">>, limiter |-> "endpoint_adventures"] >>

\* a lookup that always takes the first rule
FirstRuleAlways(path) == EndpointRules[1].limiter

\* getLimiterForPath(path): the limiter of the first rule whose prefix the
\* path starts with, "none" for null
GetLimiterForPath(path) ==
  LET hits == {i \in DOMAIN EndpointRules : StartsWith(path, EndpointRules[i].prefix)}
  IN  IF hits = {} THEN "none"
      ELSE EndpointRules[CHOOSE i \in hits : \A j \in hits : i <= j].limiter

\* Time: one tick of the clock is 1000 / TicksPerSecond milliseconds.
MsPerTick == 1000 \div TicksPerSecond
Ticks(seconds) == seconds * TicksPerSecond

\* A counter of a limiter: consumed points and ticks to live (0: no key).
NoKey == [consumed |-> 0, ttl |-> 0]

\* an increment that is lost
IncrbyLost(k, l) == IF k.ttl = 0 THEN [consumed |-> 0, ttl |-> Ticks(Duration(l))] ELSE k

\* The increment of consume(key): redis SET key 0 EX duration NX; INCRBY key 1
\* in one transaction (MemoryStorage.incrby for rl_burst).
Incrby(k, l) ==
  IF k.ttl = 0 THEN [consumed |-> 1, ttl |-> Ticks(Duration(l))]
  ELSE [k EXCEPT !.consumed = @ + 1]

\* RateLimiterRes of a consume: consumedPoints, msBeforeNext (PTTL)
ResOf(k) == [consumedPoints |-> k.consumed, msBeforeNext |-> k.ttl * MsPerTick]

\* a rounding down of the milliseconds
FloorSeconds(ms) == ms \div 1000

\* Math.ceil(err.msBeforeNext / 1000)
RetryAfterSec(ms) == (ms + 999) \div 1000

\* One request in a middleware.  status is the response's status (0: none
\* sent), nexted whether next() was called, header the Retry-After header
\* (0: not set), body the retryAfter / retryAfterSeconds of the json body,
\* logged the level of the console message.
IdleReq ==
  [pc |-> "idle", mw |-> "none", proc |-> 0, actor |-> "none", path |-> <<>>,
   ua |-> <<>>, prod |-> FALSE, limiter |-> "none", by |-> "none",
   status |-> 0, nexted |-> FALSE, header |-> 0, body |-> 0, logged |-> "none"]

Reqs == DOMAIN reqs

\* What rateBot has done with the requests of an actor since the actor's
\* rl_main key was set: passed the request on after both limiters (passed),
\* rejected it by the burst limiter (burst), passed it on without a limiter
\* having counted it (open, counted up to MaxOpen).
NoTally == [passed |-> 0, burst |-> 0, open |-> 0]

\* the tally t after rateBot has finished request q
Tallied(t, q) ==
  IF q.mw # "rateBot" \/ q.pc # "done" THEN t
  ELSE IF q.status = 429 /\ q.by = "rl_burst" THEN [t EXCEPT !.burst = @ + 1]
  ELSE IF q.nexted /\ q.logged = "none" THEN [t EXCEPT !.passed = @ + 1]
  ELSE IF q.nexted THEN [t EXCEPT !.open = IF @ < MaxOpen THEN @ + 1 ELSE @]
  ELSE t

\* next()
PassedOn(q, level) == [q EXCEPT !.pc = "done", !.nexted = TRUE, !.logged = level]

\* the catch blocks of rateBot and perEndpointLimiter for a store that is
\* not available: console.warn / console.error, then next()
Degrade(q, level) == PassedOn(q, level)

\* res.status(403).json(...)
Forbidden(q) == [q EXCEPT !.pc = "done", !.status = 403]

\* a rejection that sets no Retry-After
TooManyNoHint(q, r, l) == [q EXCEPT !.pc = "done", !.status = 429, !.by = l]

\* a rate-limit error that is passed on
TooManyPassedOn(q, r, l) == [q EXCEPT !.pc = "done", !.nexted = TRUE]

\* the RateLimiterRes branch of the catch blocks: Retry-After, 429 and body;
\* l is the limiter that rejected
TooMany(q, r, l) ==
  [q EXCEPT !.pc = "done", !.status = 429, !.by = l,
            !.header = RetryAfterSec(r.msBeforeNext),
            !.body = RetryAfterSec(r.msBeforeNext)]

\* ------------------------------------------------------- token revocation
Tokens == {"t1", "t2"}
NoValue == [value |-> "nil", ttl |-> 0]

\* this.prefix + tokenId
RevocationKey(t) == <<"revoked_token:", t>>

RevocationKeys == {RevocationKey(t) : t \in Tokens}

\* a test that takes every reply for a revocation
AnyReply(v) == TRUE

\* isTokenRevoked: result === '1'
IsRevokedResult(v) == v = "1"

IdleOp == [pc |-> "idle", op |-> "none", token |-> "none", ttl |-> 0, result |-> "none"]
Ops == DOMAIN ops

\* ------------------------------------------------- revokeAllUserTokens
Users == {"u1", "u2"}

\* a value of a custom attribute: a string s, a number of n halves, a date
\* n milliseconds from now, or undefined
Str(chars) == [t |-> "string", s |-> chars, n |-> 0]
Num(halves) == [t |-> "number", s |-> <<>>, n |-> halves]
Date(ms) == [t |-> "date", s |-> <<>>, n |-> ms]
Undefined == [t |-> "undefined", s |-> <<>>, n |-> 0]

Item(u, id, type, category, status, attrs) ==
  [userId |-> u, itemId |-> id, type |-> type, category |-> category,
   status |-> status, attrs |-> attrs]

ExpiresInAttr(v) == [key |-> <<"e", "x", "p", "i", "r", "e", "s", "I", "n">>, value |-> v]
TtlAttr(v) == [key |-> <<"T", "T", "L">>, value |-> v]
ExpiresAtAttr(v) == [key |-> <<"e", "x", "p", "i", "r", "e", "s", "A", "t">>, value |-> v]
JtiAttr(v) == [key |-> <<"j", "t", "i">>, value |-> v]

\* the items a collection is made of
Catalogue ==
  { Item("u1", "t1", "token", "other", "active", <<ExpiresInAttr(Str(<<"2", "h">>))>>),
    Item("u1", "t2", "digital", "token", "active", <<>>),
    Item("u1", "t2", "token", "token", "deleted", <<>>),
    Item("u1", "t2", "badge", "badge", "active", <<>>),
    Item("u2", "t2", "token", "token", "active", <<TtlAttr(Num(5))>>),
    Item("u1", "t1", "token", "token", "deleted", <<>>),
    Item("u1", "t2", "token", "token", "active",
         <<ExpiresInAttr(Str(<<"0">>)), ExpiresAtAttr(Date(1500))>>),
    Item("u1", "", "token", "token", "active",
         <<JtiAttr(Str(<<"t", "2">>)), TtlAttr(Str(<<" ", "9", "0", " ", "S", " ">>))>>),
    Item("u1", "", "token", "token", "active", <<>>),
    Item("u2", "t1", "token", "token", "archived", <<ExpiresInAttr(Str(<<"x">>))>>) }

Collections ==
  UNION {{q \in [1..n -> Catalogue] : \A i, j \in 1..n : i # j => q[i] # q[j]} :
         n \in 0..MaxItems}

Environments == {<<>>, <<"1", "h">>}

IsDigit(ch) == ch \in {"0", "1", "2", "3", "4", "5", "6", "7", "8", "9"}
DigitOf(ch) ==
  CASE ch = "0" -> 0 [] ch = "1" -> 1 [] ch = "2" -> 2 [] ch = "3" -> 3 [] ch = "4" -> 4
    [] ch = "5" -> 5 [] ch = "6" -> 6 [] ch = "7" -> 7 [] ch = "8" -> 8 [] ch = "9" -> 9

RECURSIVE TrimStart(_)
TrimStart(s) == IF s # <<>> /\ Head(s) = " " THEN TrimStart(Tail(s)) ELSE s

RECURSIVE TrimEnd(_)
TrimEnd(s) == IF s # <<>> /\ s[Len(s)] = " " THEN TrimEnd(SubSeq(s, 1, Len(s) - 1)) ELSE s

\* String.prototype.trim
Trim(s) == TrimEnd(TrimStart(s))

RECURSIVE DigitRun(_)
\* the digits s begins with: (\d+)
DigitRun(s) ==
  IF s # <<>> /\ IsDigit(Head(s)) THEN <<Head(s)>> \o DigitRun(Tail(s)) ELSE <<>>

RECURSIVE ParseInt(_)
\* parseInt(digits, 10)
ParseInt(ds) ==
  IF ds = <<>> THEN 0 ELSE ParseInt(SubSeq(ds, 1, Len(ds) - 1)) * 10 + DigitOf(ds[Len(ds)])

\* parseDurationToSeconds returns null
Null == -1

\* the switch on the unit
UnitSeconds(unit) ==
  CASE unit = "s" -> 1 [] unit = "m" -> 60 [] unit = "h" -> 60 * 60
    [] unit = "d" -> 24 * 60 * 60 [] unit = "w" -> 7 * 24 * 60 * 60

\* parseDurationToSeconds(value): /^(\d+)\s*(s|m|h|d|w)?$/i on the trimmed value
ParseDurationToSeconds(value) ==
  LET v == Trim(value)
      ds == DigitRun(v)
      rest == TrimStart(SubSeq(v, Len(ds) + 1, Len(v)))
  IN  IF ds = <<>> THEN Null
      ELSE IF rest = <<>> THEN ParseInt(ds)
      ELSE IF Len(rest) = 1 /\ LowerOf(rest[1]) \in {"s", "m", "h", "d", "w"}
           THEN ParseInt(ds) * UnitSeconds(LowerOf(rest[1]))
      ELSE Null

\* lookup(keys): the value of the first attribute whose key, in lower case,
\* is one of keys
Lookup(attrs, keys) ==
  LET hits == {i \in 1..Len(attrs) : ToLowerCase(attrs[i].key) \in keys}
  IN  IF hits = {} THEN Undefined
      ELSE attrs[CHOOSE i \in hits : \A j \in hits : i <= j].value

ExpiresInKeys ==
  { <<"e", "x", "p", "i", "r", "e", "s", "i", "n">>,
    <<"e", "x", "p", "i", "r", "e", "s", "i", "n", "s", "e", "c", "o", "n", "d", "s">>,
    <<"t", "t", "l">> }
ExpiresAtKeys ==
  { <<"e", "x", "p", "i", "r", "e", "s", "a", "t">>, <<"e", "x", "p", "i", "r", "y">>,
    <<"e", "x", "p", "i", "r", "e", "s">>,
    <<"t", "o", "k", "e", "n", "e", "x", "p", "i", "r", "e", "s", "a", "t">> }
TokenIdKeys ==
  { <<"t", "o", "k", "e", "n", "i", "d">>, <<"j", "t", "i">>,
    <<"t", "o", "k", "e", "n", "_", "i", "d">>, <<"i", "d">> }

SevenDays == 7 * 24 * 60 * 60

\* defaultExpiresIn under the environment env
DefaultExpiresIn(env) ==
  LET d == ParseDurationToSeconds(IF env = <<>> THEN <<"7", "d">> ELSE env)
  IN  IF d > 0 THEN d ELSE SevenDays

\* resolveExpiresIn(item)
ResolveExpiresIn(item, env) ==
  LET v == Lookup(item.attrs, ExpiresInKeys)
      a == Lookup(item.attrs, ExpiresAtKeys)
  IN  IF v.t = "number" THEN (IF v.n \div 2 > 1 THEN v.n \div 2 ELSE 1)
      ELSE IF v.t = "string" /\ ParseDurationToSeconds(v.s) > 0
           THEN ParseDurationToSeconds(v.s)
      ELSE IF a.t = "date" /\ a.n \div 1000 > 0 THEN a.n \div 1000
      ELSE DefaultExpiresIn(env)

\* String(value) of a token id
StringOf(chars) ==
  CASE chars = <<"t", "1">> -> "t1" [] chars = <<"t", "2">> -> "t2" [] OTHER -> ""

\* resolveTokenId(item), "" for null
ResolveTokenId(item) ==
  IF item.itemId # "" THEN item.itemId
  ELSE LET v == Lookup(item.attrs, TokenIdKeys)
       IN  IF v.t = "string" /\ v.s # <<>> THEN StringOf(v.s) ELSE ""

\* a query that does not look at the status
MatchesAnyStatus(item, userId) ==
  item.userId = userId /\ (item.type = "token" \/ item.category = "token")

\* the filter of UserItem.find
Matches(item, userId) ==
  /\ item.userId = userId
  /\ item.status # "deleted"
  /\ item.type = "token" \/ item.category = "token"

RECURSIVE RevokeTasks(_, _)
\* items.map(...): the SETEX commands sent, in the order of the items; an
\* item without a token id is skipped
RevokeTasks(found, env) ==
  IF found = <<>> THEN <<>>
  ELSE (IF ResolveTokenId(Head(found)) = "" THEN <<>>
        ELSE <<[tokenId |-> ResolveTokenId(Head(found)),
                expiresIn |-> ResolveExpiresIn(Head(found), env)]>>)
       \o RevokeTasks(Tail(found), env)

IdleSweep == [pc |-> "idle", userId |-> "none", queue |-> <<>>, logged |-> "none"]

\* ------------------------------------------------ the cache client's socket
\* REDIS_RECONNECT_MAX_ATTEMPTS and REDIS_RECONNECT_MAX_DELAY_MS as parsed at
\* initialize(): the defaults, and a deployment that sets both.
ReconnectSettings ==
  {[maxReconnectAttempts |-> DefaultMaxReconnectAttempts,
    maxReconnectDelay |-> DefaultMaxReconnectDelay],
   [maxReconnectAttempts |-> 3, maxReconnectDelay |-> 500]}

\* Math.floor(Math.random() * base), Math.random() being in [0, 1)
Jitters == 0..(Base - 1)

Min(a, b) == IF a <= b THEN a ELSE b

RECURSIVE Pow2(_)
\* Math.pow(2, n) for the natural numbers n of the reconnect counter
Pow2(n) == IF n = 0 THEN 1 ELSE 2 * Pow2(n - 1)

\* what reconnectStrategy returns: false (retry is FALSE), or a delay in ms
Stop == [retry |-> FALSE, ms |-> 0]
Delay(ms) == [retry |-> TRUE, ms |-> ms]

\* a strategy whose delay is not capped after the jitter is added
ReconnectUncapped(retries, jitter, cfg) ==
  IF retries > cfg.maxReconnectAttempts THEN Stop
  ELSE Delay(Min(cfg.maxReconnectDelay, Base * Pow2(retries)) + jitter)

\* reconnectStrategy(retries), jitter being the value drawn for this call
ReconnectStrategy(retries, jitter, cfg) ==
  IF retries > cfg.maxReconnectAttempts THEN Stop
  ELSE LET exp == Min(cfg.maxReconnectDelay, Base * Pow2(retries))
       IN  Delay(Min(cfg.maxReconnectDelay, exp + jitter))

\* The socket of the client created by initialize().  retries is the number
\* the strategy was last called with, jitter the value it drew and answer
\* what it returned; calls counts the calls of the strategy since the
\* connection was lost.
IdleSocket ==
  [pc |-> "none", cfg |-> [maxReconnectAttempts |-> 0, maxReconnectDelay |-> 0],
   retries |-> 0, jitter |-> 0, answer |-> Stop, calls |-> 0]

\* ------------------------------------------------------------ the throttler
ThrottleKeys == {"u1", "10.0.0.1"}
ThrottleLimits == {1, 2}          \* maxRequests of the mounted throttler

IdleThrottled == [pc |-> "idle", key |-> "none", due |-> 0, at |-> 0]

Init ==
  /\ hostBreakers = <<>>
  /\ breakers = <<>>
  /\ nBreakers = 0
  /\ calls = [c \in 1..MaxCalls |-> IdleCall]
  /\ client = FALSE
  /\ isConnected = FALSE
  /\ cacheBreaker = NoBreaker
  /\ initPc = "none"
  /\ cacheCalls = [c \in 1..MaxCacheCalls |-> IdleCacheCall]
  /\ storeUp = TRUE
  /\ redisReady = [m \in Middlewares |-> "pending"]
  /\ store = [k \in RedisLimiters \X Actors |-> NoKey]
  /\ memory = [k \in Procs \X Actors |-> NoKey]
  /\ admitted = [k \in RedisLimiters \X Actors |-> 0]
  /\ tally = [a \in Actors |-> NoTally]
  /\ policy = "fail-open"
  /\ mounted = "rateBot"
  /\ reqs = [r \in 1..MaxInFlight |-> IdleReq]
  /\ revoked = [k \in RevocationKeys |-> NoValue]
  /\ lastTtl = [t \in Tokens |-> 0]
  /\ ops = [o \in 1..MaxOps |-> IdleOp]
  /\ items = <<>>
  /\ jwtExpiresIn = <<>>
  /\ sweep = IdleSweep
  /\ socket = IdleSocket
  /\ requestTimes = <<>>
  /\ maxRequests = 0
  /\ throttled = [r \in 1..MaxThrottled |-> IdleThrottled]
  /\ clock = 0

\* ----------------------------------------------------------------- actions
\* httpRequest(opts) with a serviceName (ProxyClient.request) or an absolute
\* URL: the breaker of the target is looked up or created, then fired.  A
\* refused call rejects at once; an admitted one runs the action up to its
\* first transport request.  Calls are numbered in the order they are made.
StartGuarded(c, via, t) ==
  /\ calls[c].pc = "idle"
  /\ \A x \in Calls : x < c => calls[x].pc # "idle"
  /\ Guarded(via) /\ t \in TargetsOf(via)
  /\ LET reg == GetBreaker(Registry(via), t, nBreakers)
         b   == reg[t]
         others == PendingOn(via, t)
     IN  /\ SetRegistry(via, Put(reg, t, BreakerFire(b, c)))
         /\ nBreakers' = IF b.id > nBreakers THEN b.id ELSE nBreakers
         /\ calls' =
              [x \in Calls |->
                 IF x = c
                 THEN IF Admits(b)
                      THEN [IdleCall EXCEPT !.pc = "attempt", !.via = via, !.target = t,
                                            !.invocations = 1, !.bid = b.id, !.alone = (others = {})]
                      ELSE [IdleCall EXCEPT !.pc = "done", !.via = via, !.target = t,
                                            !.bid = b.id,
                                            !.result = CaughtError(Failure("EOPENBREAKER", 0, "none", 0), t)]
                 ELSE IF x \in others /\ Admits(b)
                      THEN [calls[x] EXCEPT !.alone = FALSE]
                      ELSE calls[x]]

\* a fallback that fetches the breaker of the origin it could not parse
StartUnguardedRegistering(c, via) ==
  /\ calls[c].pc = "idle"
  /\ \A x \in Calls : x < c => calls[x].pc # "idle"
  /\ via \in {"fallback", "nourl"}
  /\ calls' = [calls EXCEPT ![c] =
       IF via = "nourl"
       THEN [IdleCall EXCEPT !.pc = "done", !.via = via,
                             !.result = Failure("NO_URL", 0, "none", 0)]
       ELSE [IdleCall EXCEPT !.pc = "attempt", !.via = via, !.invocations = 1]]
  /\ hostBreakers' = IF via = "fallback" THEN GetBreaker(hostBreakers, "undefined", nBreakers)
                     ELSE hostBreakers
  /\ nBreakers' = IF via = "fallback" /\ ~Has(hostBreakers, "undefined") THEN nBreakers + 1
                  ELSE nBreakers
  /\ UNCHANGED breakers

\* httpRequest(opts) without serviceName whose URL has no origin: pRetry
\* around axios.request, no breaker.  Without a url at all it throws.
StartUnguarded(c, via) ==
  /\ calls[c].pc = "idle"
  /\ \A x \in Calls : x < c => calls[x].pc # "idle"
  /\ via \in {"fallback", "nourl"}
  /\ calls' = [calls EXCEPT ![c] =
       IF via = "nourl"
       THEN [IdleCall EXCEPT !.pc = "done", !.via = via,
                             !.result = Failure("NO_URL", 0, "none", 0)]
       ELSE [IdleCall EXCEPT !.pc = "attempt", !.via = via, !.invocations = 1]]
  /\ UNCHANGED <<hostBreakers, breakers, nBreakers>>

\* The action of call cr has settled with result r.  On the fallback path r
\* is the call's result.  Behind a breaker, the breaker counts a success or a
\* failure and hands r to the caller, unless its invocation timeout has
\* already rejected the call: then the outcome is dropped.
ActionSettled(c, cr, r) ==
  IF Guarded(cr.via) /\ ~cr.timedOut
  THEN LET reg == Registry(cr.via)
           b   == reg[cr.target]
           b2  == Settle(IF r.kind = "resp" THEN BreakerSuccess(b, c)
                         ELSE BreakerFailure(b, c), c)
       IN  /\ SetRegistry(cr.via, Put(reg, cr.target, b2))
           /\ calls' = [calls EXCEPT ![c] =
                          [cr EXCEPT !.pc = "done", !.errors = <<>>,
                                     !.result = CaughtError(r, cr.target)]]
  ELSE /\ calls' = [calls EXCEPT ![c] =
                      [cr EXCEPT !.pc = "done", !.errors = <<>>,
                                 !.result = IF cr.timedOut THEN @ ELSE r]]
       /\ UNCHANGED <<hostBreakers, breakers>>

\* The transport request of call c ends with outcome o (attempt + pRetry).
TransportReturns(c, o) ==
  /\ calls[c].pc = "attempt"
  /\ LET cr == [calls[c] EXCEPT !.last = o]
         k  == cr.invocations
         failed == [cr EXCEPT !.errors = Append(@, [outcome |-> o, attempt |-> k, via |-> cr.via])]
     IN  IF ~Throws(cr.via, o) THEN ActionSettled(c, cr, Response(o, k))
         ELSE IF Len(failed.errors) <= DEFAULT_RETRIES
              THEN /\ calls' = [calls EXCEPT ![c] = [failed EXCEPT !.pc = "backoff"]]
                   /\ UNCHANGED <<hostBreakers, breakers>>
              ELSE ActionSettled(c, failed, RetriesExhaustedError(failed.errors))
  /\ UNCHANGED nBreakers

\* pRetry's backoff delay ends: the next transport request is made.
BackoffElapsed(c) ==
  /\ calls[c].pc = "backoff"
  /\ calls' = [calls EXCEPT ![c].pc = "attempt", ![c].invocations = @ + 1]
  /\ UNCHANGED <<hostBreakers, breakers, nBreakers>>

\* The breaker's invocation timeout elapses while the action of call c is
\* still running: the call is failed with ETIMEDOUT; the action runs on.
InvocationTimeout(c) ==
  /\ Pending(calls[c])
  /\ LET cr  == calls[c]
         reg == Registry(cr.via)
     IN  /\ SetRegistry(cr.via,
                         Put(reg, cr.target, Settle(BreakerTimedOut(reg[cr.target], c), c)))
         /\ calls' = [calls EXCEPT ![c].timedOut = TRUE,
                                   ![c].result =
                                      CaughtError(Failure("ETIMEDOUT", 0, "none", 0), cr.target)]
  /\ UNCHANGED nBreakers

\* The reset timer of an open breaker elapses.  Calls admitted before the
\* breaker opened have been settled by then (5 s against 30 s), and what they
\* recorded has left the rolling window (10 s against 30 s): the window holds
\* nothing but calls rejected while the breaker was open.
ResetTimeout(via, t) ==
  /\ Guarded(via) /\ Has(Registry(via), t)
  /\ Opened(Registry(via)[t])
  /\ PendingOn(via, t) = {}
  /\ \A i \in DOMAIN Registry(via)[t].window : Registry(via)[t].window[i].kind = "rejected"
  /\ SetRegistry(via, Put(Registry(via), t, BreakerHalfOpen(Registry(via)[t])))
  /\ UNCHANGED <<nBreakers, calls>>

\* The rolling window moves on and the oldest recorded event leaves it.  The
\* fire of a call the breaker has not settled yet cannot: it is younger than
\* the invocation timeout.
WindowRolls(via, t) ==
  /\ Guarded(via) /\ Has(Registry(via), t)
  /\ LET b == Registry(via)[t]
     IN  /\ b.window # <<>>
         /\ ~(Head(b.window).kind = "fire" /\ Head(b.window).call \in PendingOn(via, t))
         /\ SetRegistry(via, Put(Registry(via), t, [b EXCEPT !.window = Tail(@)]))
  /\ UNCHANGED <<nBreakers, calls>>

Next ==
  \/ \E c \in Calls, via \in Vias : \E t \in TargetsOf(via) :
        StartGuarded(c, via, t) /\ UNCHANGED notHttpVars
  \/ \E c \in Calls, via \in Vias : StartUnguarded(c, via) /\ UNCHANGED notHttpVars
  \/ \E c \in Calls, o \in Outcomes : TransportReturns(c, o) /\ UNCHANGED notHttpVars
  \/ \E c \in Calls : BackoffElapsed(c) /\ UNCHANGED notHttpVars
  \/ \E c \in Calls : InvocationTimeout(c) /\ UNCHANGED notHttpVars
  \/ \E via \in Vias : \E t \in TargetsOf(via) :
        ResetTimeout(via, t) /\ UNCHANGED notHttpVars
  \/ \E via \in Vias : \E t \in TargetsOf(via) :
        WindowRolls(via, t) /\ UNCHANGED notHttpVars

Spec == Init /\ [][Next]_vars

\* ------------------------------------------------- sustained failure
\* A dependency that is down: every call goes to one origin and every
\* transport request is answered 500 at once (before any invocation timeout),
\* with at most MaxPending calls under way at a time.
FailingOrigin == "https://a.test"

InitSustained ==
  /\ hostBreakers = <<>>
  /\ breakers = <<>>
  /\ nBreakers = 0
  /\ calls = [c \in 1..SustainedCalls |-> IdleCall]
  /\ client = FALSE
  /\ isConnected = FALSE
  /\ cacheBreaker = NoBreaker
  /\ initPc = "none"
  /\ cacheCalls = [c \in 1..MaxCacheCalls |-> IdleCacheCall]
  /\ storeUp = TRUE
  /\ redisReady = [m \in Middlewares |-> "pending"]
  /\ store = [k \in RedisLimiters \X Actors |-> NoKey]
  /\ memory = [k \in Procs \X Actors |-> NoKey]
  /\ admitted = [k \in RedisLimiters \X Actors |-> 0]
  /\ tally = [a \in Actors |-> NoTally]
  /\ policy = "fail-open"
  /\ mounted = "rateBot"
  /\ reqs = [r \in 1..MaxInFlight |-> IdleReq]
  /\ revoked = [k \in RevocationKeys |-> NoValue]
  /\ lastTtl = [t \in Tokens |-> 0]
  /\ ops = [o \in 1..MaxOps |-> IdleOp]
  /\ items = <<>>
  /\ jwtExpiresIn = <<>>
  /\ sweep = IdleSweep
  /\ socket = IdleSocket
  /\ requestTimes = <<>>
  /\ maxRequests = 0
  /\ throttled = [r \in 1..MaxThrottled |-> IdleThrottled]
  /\ clock = 0

SustainedStart(c) ==
  /\ Cardinality(PendingOn("host", FailingOrigin)) < MaxPending
  /\ StartGuarded(c, "host", FailingOrigin)

NextSustained ==
  \/ \E c \in Calls : SustainedStart(c) /\ UNCHANGED notHttpVars
  \/ \E c \in Calls : TransportReturns(c, 500) /\ UNCHANGED notHttpVars
  \/ \E c \in Calls : BackoffElapsed(c) /\ UNCHANGED notHttpVars
  \/ ResetTimeout("host", FailingOrigin) /\ UNCHANGED notHttpVars
  \/ WindowRolls("host", FailingOrigin) /\ UNCHANGED notHttpVars

SpecSustained == InitSustained /\ [][NextSustained]_vars

\* ------------------------------------------------- failure and recovery
\* A dependency that fails and recovers: every call goes to one origin or to
\* one service, and a transport request is answered 200 or 500.
InitTrial ==
  /\ hostBreakers = <<>>
  /\ breakers = <<>>
  /\ nBreakers = 0
  /\ calls = [c \in 1..TrialCalls |-> IdleCall]
  /\ client = FALSE
  /\ isConnected = FALSE
  /\ cacheBreaker = NoBreaker
  /\ initPc = "none"
  /\ cacheCalls = [c \in 1..MaxCacheCalls |-> IdleCacheCall]
  /\ storeUp = TRUE
  /\ redisReady = [m \in Middlewares |-> "pending"]
  /\ store = [k \in RedisLimiters \X Actors |-> NoKey]
  /\ memory = [k \in Procs \X Actors |-> NoKey]
  /\ admitted = [k \in RedisLimiters \X Actors |-> 0]
  /\ tally = [a \in Actors |-> NoTally]
  /\ policy = "fail-open"
  /\ mounted = "rateBot"
  /\ reqs = [r \in 1..MaxInFlight |-> IdleReq]
  /\ revoked = [k \in RevocationKeys |-> NoValue]
  /\ lastTtl = [t \in Tokens |-> 0]
  /\ ops = [o \in 1..MaxOps |-> IdleOp]
  /\ items = <<>>
  /\ jwtExpiresIn = <<>>
  /\ sweep = IdleSweep
  /\ socket = IdleSocket
  /\ requestTimes = <<>>
  /\ maxRequests = 0
  /\ throttled = [r \in 1..MaxThrottled |-> IdleThrottled]
  /\ clock = 0

TrialTargets == {<<"host", FailingOrigin>>}

NextTrial ==
  \/ \E c \in Calls, vt \in TrialTargets :
        StartGuarded(c, vt[1], vt[2]) /\ UNCHANGED notHttpVars
  \/ \E c \in Calls, o \in {200, 500} : TransportReturns(c, o) /\ UNCHANGED notHttpVars
  \/ \E c \in Calls : BackoffElapsed(c) /\ UNCHANGED notHttpVars
  \/ \E c \in Calls : InvocationTimeout(c) /\ UNCHANGED notHttpVars
  \/ \E vt \in TrialTargets : ResetTimeout(vt[1], vt[2]) /\ UNCHANGED notHttpVars
  \/ \E vt \in TrialTargets : WindowRolls(vt[1], vt[2]) /\ UNCHANGED notHttpVars

SpecTrial == InitTrial /\ [][NextTrial]_vars

\* ------------------------------------------------- cache client, actions
\* server.ts calls cacheService.initialize() without awaiting it: the client
\* is created and connect() is under way.
Initialize ==
  /\ initPc = "none"
  /\ client' = TRUE
  /\ initPc' = "connecting"
  /\ UNCHANGED <<isConnected, cacheBreaker, cacheCalls>>

\* the client emits 'connect' or 'ready'
ClientConnected ==
  /\ initPc \in {"connecting", "initialized"}
  /\ isConnected' = TRUE
  /\ UNCHANGED <<client, cacheBreaker, initPc, cacheCalls>>

\* the client emits 'error' or 'end'
ClientDown ==
  /\ initPc \in {"connecting", "initialized"}
  /\ isConnected' = FALSE
  /\ UNCHANGED <<client, cacheBreaker, initPc, cacheCalls>>

\* connect() resolves (the client has been ready): the breaker is created
ConnectResolves ==
  /\ initPc = "connecting"
  /\ isConnected
  /\ cacheBreaker' = NewBreaker(1)
  /\ initPc' = "initialized"
  /\ UNCHANGED <<client, isConnected, cacheCalls>>

\* connect() rejects: initialize() catches, no breaker is created
ConnectRejects ==
  /\ initPc = "connecting"
  /\ isConnected' = FALSE
  /\ initPc' = "failed"
  /\ UNCHANGED <<client, cacheBreaker, cacheCalls>>

\* cacheService.get / set / del up to its first await.  serialisable is
\* whether JSON.stringify(value) succeeds (it runs inside exec, for set).
CacheCall(c, op, serialisable) ==
  /\ cacheCalls[c].pc = "idle"
  /\ \A x \in CacheCalls : x < c => cacheCalls[x].pc # "idle"
  /\ op \in CacheOps
  /\ LET cc == [IdleCacheCall EXCEPT !.op = op]
         throws == op = "set" /\ ~serialisable
     IN  IF NotConnected \/ BreakerOpen
         THEN /\ cacheCalls' = [cacheCalls EXCEPT ![c] =
                                  [cc EXCEPT !.pc = "done", !.ret = Skipped(op)]]
              /\ UNCHANGED cacheBreaker
         ELSE IF cacheBreaker = NoBreaker
         THEN /\ cacheCalls' = [cacheCalls EXCEPT ![c] =
                   IF throws THEN [cc EXCEPT !.pc = "done", !.ret = Caught(op)]
                   ELSE [cc EXCEPT !.pc = "exec", !.commands = 1]]
              /\ UNCHANGED cacheBreaker
         ELSE IF ~Admits(cacheBreaker)
         THEN /\ cacheBreaker' = BreakerFire(cacheBreaker, c)
              /\ cacheCalls' = [cacheCalls EXCEPT ![c] =
                                  [cc EXCEPT !.pc = "done", !.fired = TRUE, !.ret = Caught(op)]]
         ELSE IF throws
         THEN /\ cacheBreaker' = BreakerFailure(BreakerFire(cacheBreaker, 0), 0)
              /\ cacheCalls' = [cacheCalls EXCEPT ![c] =
                                  [cc EXCEPT !.pc = "done", !.fired = TRUE, !.ret = Caught(op)]]
         ELSE /\ cacheBreaker' = BreakerFire(cacheBreaker, c)
              /\ cacheCalls' = [cacheCalls EXCEPT ![c] =
                                  [cc EXCEPT !.pc = "exec", !.fired = TRUE, !.commands = 1]]
  /\ UNCHANGED <<client, isConnected, initPc>>

\* what get / set / del returns once exec has settled with r
Returned(op, r) == IF r = "threw" THEN Caught(op) ELSE r

\* The backend answers the command of call c.
CommandReturns(c, reply) ==
  /\ cacheCalls[c].pc = "exec"
  /\ reply \in Replies(cacheCalls[c].op)
  /\ LET cc == [cacheCalls[c] EXCEPT !.reply = reply]
         r  == ExecResult(cc.op, reply)
     IN  IF cc.fired /\ ~cc.timedOut
         THEN /\ cacheBreaker' = Settle(IF r = "threw" THEN BreakerFailure(cacheBreaker, c)
                                        ELSE BreakerSuccess(cacheBreaker, c), c)
              /\ cacheCalls' = [cacheCalls EXCEPT ![c] =
                                  [cc EXCEPT !.pc = "done", !.ret = Returned(cc.op, r)]]
         ELSE /\ cacheCalls' = [cacheCalls EXCEPT ![c] =
                   [cc EXCEPT !.pc = "done",
                              !.ret = IF cc.timedOut THEN @ ELSE Returned(cc.op, r)]]
              /\ UNCHANGED cacheBreaker
  /\ UNCHANGED <<client, isConnected, initPc>>

\* The cache breaker's invocation timeout elapses before the backend answers:
\* fire rejects with ETIMEDOUT, which get / set / del catch.
CacheInvocationTimeout(c) ==
  /\ c \in CachePending
  /\ cacheBreaker' = Settle(BreakerTimedOut(cacheBreaker, c), c)
  /\ cacheCalls' = [cacheCalls EXCEPT ![c].timedOut = TRUE,
                                      ![c].ret = Caught(cacheCalls[c].op)]
  /\ UNCHANGED <<client, isConnected, initPc>>

CacheResetTimeout ==
  /\ cacheBreaker # NoBreaker /\ Opened(cacheBreaker)
  /\ CachePending = {}
  /\ \A i \in DOMAIN cacheBreaker.window : cacheBreaker.window[i].kind = "rejected"
  /\ cacheBreaker' = BreakerHalfOpen(cacheBreaker)
  /\ UNCHANGED <<client, isConnected, initPc, cacheCalls>>

CacheWindowRolls ==
  /\ cacheBreaker # NoBreaker /\ cacheBreaker.window # <<>>
  /\ ~(Head(cacheBreaker.window).kind = "fire" /\ Head(cacheBreaker.window).call \in CachePending)
  /\ cacheBreaker' = [cacheBreaker EXCEPT !.window = Tail(@)]
  /\ UNCHANGED <<client, isConnected, initPc, cacheCalls>>

NextCache ==
  \/ Initialize /\ UNCHANGED notCacheVars
  \/ ClientConnected /\ UNCHANGED notCacheVars
  \/ ClientDown /\ UNCHANGED notCacheVars
  \/ ConnectResolves /\ UNCHANGED notCacheVars
  \/ ConnectRejects /\ UNCHANGED notCacheVars
  \/ \E c \in CacheCalls, op \in CacheOps, ser \in BOOLEAN :
        CacheCall(c, op, ser) /\ UNCHANGED notCacheVars
  \/ \E c \in CacheCalls, reply \in {"hit", "miss", "garbage", "ok", "error"} :
        CommandReturns(c, reply) /\ UNCHANGED notCacheVars
  \/ \E c \in CacheCalls : CacheInvocationTimeout(c) /\ UNCHANGED notCacheVars
  \/ CacheResetTimeout /\ UNCHANGED notCacheVars
  \/ CacheWindowRolls /\ UNCHANGED notCacheVars

SpecCache == Init /\ [][NextCache]_vars

\* ------------------------------------------------- rate limiter middleware
InitLimiter ==
  /\ hostBreakers = <<>>
  /\ breakers = <<>>
  /\ nBreakers = 0
  /\ calls = [c \in 1..MaxCalls |-> IdleCall]
  /\ client = FALSE
  /\ isConnected = FALSE
  /\ cacheBreaker = NoBreaker
  /\ initPc = "none"
  /\ cacheCalls = [c \in 1..MaxCacheCalls |-> IdleCacheCall]
  /\ storeUp \in BOOLEAN
  /\ redisReady = [m \in Middlewares |-> "pending"]
  /\ store = [k \in RedisLimiters \X Actors |-> NoKey]
  /\ memory = [k \in Procs \X Actors |-> NoKey]
  /\ admitted = [k \in RedisLimiters \X Actors |-> 0]
  /\ tally = [a \in Actors |-> NoTally]
  /\ policy \in {"fail-open", "fail-closed"}
  /\ mounted \in Middlewares
  /\ reqs = [r \in 1..MaxInFlight |-> IdleReq]
  /\ revoked = [k \in RevocationKeys |-> NoValue]
  /\ lastTtl = [t \in Tokens |-> 0]
  /\ ops = [o \in 1..MaxOps |-> IdleOp]
  /\ items = <<>>
  /\ jwtExpiresIn = <<>>
  /\ sweep = IdleSweep
  /\ socket = IdleSocket
  /\ requestTimes = <<>>
  /\ maxRequests = 0
  /\ throttled = [r \in 1..MaxThrottled |-> IdleThrottled]
  /\ clock = 0

\* redisClient.connect() settles: redisReady resolves, or rejects for good
ConnectSettles(m) ==
  /\ m = mounted
  /\ redisReady[m] = "pending"
  /\ redisReady' = [redisReady EXCEPT ![m] = IF storeUp THEN "resolved" ELSE "rejected"]
  /\ UNCHANGED <<storeUp, store, memory, admitted, tally, policy, mounted, reqs>>

\* the redis server becomes unreachable, or reachable again
StoreFlips ==
  /\ storeUp' = ~storeUp
  /\ UNCHANGED <<redisReady, store, memory, admitted, tally, policy, mounted, reqs>>

\* rateBot(req, res, next) up to its first await: the exemptions, then the
\* user-agent test, then await redisReady
RateBotArrives(r, proc, actor, path, ua, prod) ==
  /\ mounted = "rateBot"
  /\ reqs[r].pc \in {"idle", "done"}
  /\ \A x \in Reqs : x < r => reqs[x].pc \notin {"idle", "done"}
  /\ LET q == [IdleReq EXCEPT !.mw = "rateBot", !.proc = proc, !.actor = actor,
                              !.path = path, !.ua = ua, !.prod = prod]
     IN  reqs' = [reqs EXCEPT ![r] =
           IF ~prod THEN PassedOn(q, "none")
           ELSE IF StartsWith(path, AuthPrefix) THEN PassedOn(q, "none")
           ELSE IF IsBotUserAgent(ua) THEN Forbidden(q)
           ELSE [q EXCEPT !.pc = "ready", !.limiter = "rl_main"]]
  /\ UNCHANGED <<storeUp, redisReady, store, memory, admitted, tally, policy, mounted>>

\* perEndpointLimiter(req, res, next) up to its first await
EndpointArrives(r, actor, path) ==
  /\ mounted = "perEndpoint"
  /\ reqs[r].pc \in {"idle", "done"}
  /\ \A x \in Reqs : x < r => reqs[x].pc \notin {"idle", "done"}
  /\ LET q == [IdleReq EXCEPT !.mw = "perEndpoint", !.actor = actor,
                              !.path = path, !.prod = TRUE]
         l == GetLimiterForPath(path)
     IN  reqs' = [reqs EXCEPT ![r] =
           IF l = "none" THEN PassedOn(q, "none")
           ELSE [q EXCEPT !.pc = "ready", !.limiter = l]]
  /\ UNCHANGED <<storeUp, redisReady, store, memory, admitted, tally, policy, mounted>>

\* await redisReady returns or throws: a rejected promise degrades the
\* request, a resolved one sends the consume of the redis limiter
AfterReady(r) ==
  /\ reqs[r].pc = "ready"
  /\ redisReady[reqs[r].mw] # "pending"
  /\ reqs' = [reqs EXCEPT ![r] =
       IF redisReady[reqs[r].mw] = "rejected" THEN Degrade(@, "warn")
       ELSE [@ EXCEPT !.pc = "consume"]]
  /\ UNCHANGED <<storeUp, redisReady, store, memory, admitted, tally, policy, mounted>>

\* Redis executes the consume of request r (one transaction) and the reply
\* reaches the middleware.  Over the points: the limiter first blocks the key
\* if it has a blockDuration and this is the first consumption over the
\* points, then rejects.  Within the points: rateBot consumes from the burst
\* limiter of its process, synchronously.
RedisConsumes(r) ==
  /\ reqs[r].pc = "consume"
  /\ storeUp
  /\ LET q   == reqs[r]
         l   == q.limiter
         key == <<l, q.actor>>
         k   == Incrby(store[key], l)
         m   == <<q.proc, q.actor>>
         b   == Incrby(memory[m], "rl_burst")
     IN  /\ store[key].consumed < Points(l) + MaxOver
         /\ store' = [store EXCEPT ![key] = k]
         /\ admitted' = [admitted EXCEPT ![key] = IF k.consumed <= Points(l) THEN @ + 1 ELSE @]
         /\ IF k.consumed > Points(l)
            THEN /\ reqs' = [reqs EXCEPT ![r] =
                      IF BlockDuration(l) > 0 /\ k.consumed <= Points(l) + 1
                      THEN [q EXCEPT !.pc = "block"]
                      ELSE TooMany(q, ResOf(k), l)]
                 /\ UNCHANGED memory
            ELSE IF q.mw = "rateBot"
            THEN /\ memory[m].consumed < BurstPoints + MaxOver
                 /\ memory' = [memory EXCEPT ![m] = b]
                 /\ reqs' = [reqs EXCEPT ![r] =
                      IF b.consumed > BurstPoints
                      THEN TooMany(q, ResOf(b), "rl_burst")
                      ELSE PassedOn(q, "none")]
            ELSE /\ reqs' = [reqs EXCEPT ![r] = PassedOn(q, "none")]
                 /\ UNCHANGED memory
  /\ tally' = [tally EXCEPT ![reqs[r].actor] =
                 Tallied(IF store[<<"rl_main", reqs[r].actor>>] = NoKey THEN NoTally ELSE @,
                         reqs'[r])]
  /\ UNCHANGED <<storeUp, redisReady, policy, mounted>>

\* the consume (or the block) of request r fails with a redis error: the
\* catch block logs it and calls next()
StoreCommandFails(r) ==
  /\ reqs[r].pc \in {"consume", "block"}
  /\ ~storeUp
  /\ reqs' = [reqs EXCEPT ![r] = Degrade(@, "error")]
  /\ tally' = [tally EXCEPT ![reqs[r].actor] =
                 IF store[<<"rl_main", reqs[r].actor>>] = NoKey THEN @
                 ELSE Tallied(@, reqs'[r])]
  /\ UNCHANGED <<storeUp, redisReady, store, memory, admitted, policy, mounted>>

\* redis executes the block of request r's key: the key is set to the
\* consumed points of r's consume (points + 1: the first over the points)
\* and lives for blockDuration; the request is rejected with
\* msBeforeNext = blockDuration
BlockWritten(r) ==
  /\ reqs[r].pc = "block"
  /\ storeUp
  /\ LET l == reqs[r].limiter
         k == [consumed |-> Points(l) + 1, ttl |-> Ticks(BlockDuration(l))]
     IN  /\ store' = [store EXCEPT ![<<l, reqs[r].actor>>] = k]
         /\ reqs' = [reqs EXCEPT ![r] = TooMany(@, ResOf(k), l)]
  /\ UNCHANGED <<storeUp, redisReady, memory, admitted, tally, policy, mounted>>

\* a counter one tick later: a key whose time is up is gone
Aged(k) == IF k.ttl <= 1 THEN NoKey ELSE [k EXCEPT !.ttl = @ - 1]

\* One tick of the clock passes.
Tick ==
  /\ \E k \in DOMAIN store : store[k].ttl > 0
  /\ store' = [k \in DOMAIN store |-> Aged(store[k])]
  /\ memory' = [k \in DOMAIN memory |-> Aged(memory[k])]
  /\ admitted' = [k \in DOMAIN admitted |-> IF store[k].ttl <= 1 THEN 0 ELSE admitted[k]]
  /\ tally' = [a \in Actors |->
                 IF store[<<"rl_main", a>>].ttl <= 1 THEN NoTally ELSE tally[a]]
  /\ UNCHANGED <<storeUp, redisReady, policy, mounted, reqs>>

NextLimiter ==
  \/ \E m \in Middlewares : ConnectSettles(m) /\ UNCHANGED notLimiterVars
  \/ StoreFlips /\ UNCHANGED notLimiterVars
  \/ \E r \in Reqs, proc \in Procs, actor \in Actors, path \in RateBotPaths,
        ua \in UserAgents, prod \in BOOLEAN :
        RateBotArrives(r, proc, actor, path, ua, prod) /\ UNCHANGED notLimiterVars
  \/ \E r \in Reqs, actor \in Actors, path \in EndpointPaths :
        EndpointArrives(r, actor, path) /\ UNCHANGED notLimiterVars
  \/ \E r \in Reqs : AfterReady(r) /\ UNCHANGED notLimiterVars
  \/ \E r \in Reqs : RedisConsumes(r) /\ UNCHANGED notLimiterVars
  \/ \E r \in Reqs : StoreCommandFails(r) /\ UNCHANGED notLimiterVars
  \/ \E r \in Reqs : BlockWritten(r) /\ UNCHANGED notLimiterVars
  \/ Tick /\ UNCHANGED notLimiterVars

SpecLimiter == InitLimiter /\ [][NextLimiter]_vars

\* ------------------------------------------------ outage at process start
\* The redis server is unreachable when the middleware module is loaded and
\* becomes reachable, for good, at some later time.  Requests that no
\* exemption applies to keep arriving.
InitOutage == InitLimiter /\ ~storeUp /\ policy = "fail-open"

\* the redis server becomes reachable
StoreRecovers ==
  /\ ~storeUp
  /\ storeUp' = TRUE
  /\ UNCHANGED <<redisReady, store, memory, admitted, tally, policy, mounted, reqs>>

LimitedArrives ==
  \/ \E r \in Reqs, actor \in Actors :
        RateBotArrives(r, 1, actor, <<"/api", "/users", "x">>, <<"c", "u", "r", "l">>, TRUE)
  \/ \E r \in Reqs, actor \in Actors, path \in EndpointPaths \ {<<"/health">>} :
        EndpointArrives(r, actor, path)

NextOutage ==
  \/ \E m \in Middlewares : ConnectSettles(m) /\ UNCHANGED notLimiterVars
  \/ StoreRecovers /\ UNCHANGED notLimiterVars
  \/ LimitedArrives /\ UNCHANGED notLimiterVars
  \/ \E r \in Reqs : AfterReady(r) /\ UNCHANGED notLimiterVars
  \/ \E r \in Reqs : RedisConsumes(r) /\ UNCHANGED notLimiterVars
  \/ \E r \in Reqs : BlockWritten(r) /\ UNCHANGED notLimiterVars
  \/ Tick /\ UNCHANGED notLimiterVars

\* The connect attempt settles, the server becomes reachable, requests keep
\* arriving and every continuation the event loop holds is run.
FairOutage ==
  /\ WF_vars(\E m \in Middlewares : ConnectSettles(m) /\ UNCHANGED notLimiterVars)
  /\ WF_vars(StoreRecovers /\ UNCHANGED notLimiterVars)
  /\ WF_vars(LimitedArrives /\ UNCHANGED notLimiterVars)
  /\ WF_vars(\E r \in Reqs : AfterReady(r) /\ UNCHANGED notLimiterVars)
  /\ WF_vars(\E r \in Reqs : RedisConsumes(r) /\ UNCHANGED notLimiterVars)
  /\ WF_vars(\E r \in Reqs : BlockWritten(r) /\ UNCHANGED notLimiterVars)

SpecOutage == InitOutage /\ [][NextOutage]_vars /\ FairOutage

\* -------------------------------------------------------- token revocation
\* revokeToken(tokenId, expiresIn) up to its await: SETEX is sent
RevokeToken(o, t, ttl) ==
  /\ ops[o].pc = "idle"
  /\ \A x \in Ops : x < o => ops[x].pc # "idle"
  /\ ops' = [ops EXCEPT ![o] = [IdleOp EXCEPT !.pc = "sent", !.op = "revoke",
                                              !.token = t, !.ttl = ttl]]
  /\ UNCHANGED <<revoked, lastTtl>>

\* isTokenRevoked(tokenId) up to its await: GET is sent
IsTokenRevoked(o, t) ==
  /\ ops[o].pc = "idle"
  /\ \A x \in Ops : x < o => ops[x].pc # "idle"
  /\ ops' = [ops EXCEPT ![o] = [IdleOp EXCEPT !.pc = "sent", !.op = "check", !.token = t]]
  /\ UNCHANGED <<revoked, lastTtl>>

\* redis executes SETEX key expiresIn '1' and revokeToken returns; an
\* expiresIn that is not positive is an error of the command, which
\* revokeToken does not catch
RedisSetex(o) ==
  /\ ops[o].pc = "sent" /\ ops[o].op = "revoke"
  /\ IF ops[o].ttl > 0
     THEN /\ revoked' = [revoked EXCEPT ![RevocationKey(ops[o].token)] =
                           [value |-> "1", ttl |-> ops[o].ttl]]
          /\ lastTtl' = [lastTtl EXCEPT ![ops[o].token] = ops[o].ttl]
          /\ ops' = [ops EXCEPT ![o].pc = "done", ![o].result = "void"]
     ELSE /\ ops' = [ops EXCEPT ![o].pc = "done", ![o].result = "threw"]
          /\ UNCHANGED <<revoked, lastTtl>>

\* redis executes GET key and isTokenRevoked returns
RedisGet(o) ==
  /\ ops[o].pc = "sent" /\ ops[o].op = "check"
  /\ ops' = [ops EXCEPT ![o].pc = "done",
                        ![o].result =
                           IF IsRevokedResult(revoked[RevocationKey(ops[o].token)].value)
                           THEN "true" ELSE "false"]
  /\ UNCHANGED <<revoked, lastTtl>>

\* one second passes: a key whose time is up is gone
SecondPasses ==
  /\ \E k \in RevocationKeys : revoked[k].ttl > 0
  /\ revoked' = [k \in RevocationKeys |->
                   IF revoked[k].ttl <= 1 THEN NoValue ELSE [revoked[k] EXCEPT !.ttl = @ - 1]]
  /\ UNCHANGED <<lastTtl, ops>>

NextRevocation ==
  \/ \E o \in Ops, t \in Tokens, ttl \in 0..MaxTtl :
        RevokeToken(o, t, ttl) /\ UNCHANGED notRevocationVars
  \/ \E o \in Ops, t \in Tokens : IsTokenRevoked(o, t) /\ UNCHANGED notRevocationVars
  \/ \E o \in Ops : RedisSetex(o) /\ UNCHANGED notRevocationVars
  \/ \E o \in Ops : RedisGet(o) /\ UNCHANGED notRevocationVars
  \/ SecondPasses /\ UNCHANGED notRevocationVars

SpecRevocation == Init /\ [][NextRevocation]_vars

\* --------------------------------------------- revokeAllUserTokens, actions
\* a collection and an environment, nothing else started
InitSweep ==
  /\ hostBreakers = <<>>
  /\ breakers = <<>>
  /\ nBreakers = 0
  /\ calls = [c \in 1..MaxCalls |-> IdleCall]
  /\ client = FALSE
  /\ isConnected = FALSE
  /\ cacheBreaker = NoBreaker
  /\ initPc = "none"
  /\ cacheCalls = [c \in 1..MaxCacheCalls |-> IdleCacheCall]
  /\ storeUp = TRUE
  /\ redisReady = [m \in Middlewares |-> "pending"]
  /\ store = [k \in RedisLimiters \X Actors |-> NoKey]
  /\ memory = [k \in Procs \X Actors |-> NoKey]
  /\ admitted = [k \in RedisLimiters \X Actors |-> 0]
  /\ tally = [a \in Actors |-> NoTally]
  /\ policy = "fail-open"
  /\ mounted = "rateBot"
  /\ reqs = [r \in 1..MaxInFlight |-> IdleReq]
  /\ revoked = [k \in RevocationKeys |-> NoValue]
  /\ lastTtl = [t \in Tokens |-> 0]
  /\ ops = [o \in 1..MaxOps |-> IdleOp]
  /\ items \in Collections
  /\ jwtExpiresIn \in Environments
  /\ sweep = IdleSweep
  /\ socket = IdleSocket
  /\ requestTimes = <<>>
  /\ maxRequests = 0
  /\ throttled = [r \in 1..MaxThrottled |-> IdleThrottled]
  /\ clock = 0

\* revokeAllUserTokens(userId) up to the await of UserItem.find
RevokeAllUserTokens(u) ==
  /\ sweep.pc \in {"idle", "resolved"}
  /\ sweep' = [IdleSweep EXCEPT !.pc = "finding", !.userId = u]
  /\ UNCHANGED <<items, jwtExpiresIn, revoked, lastTtl, ops>>

\* UserItem.find resolves; with no item the call returns, otherwise every
\* item's revokeToken is started
FindReturns ==
  /\ sweep.pc = "finding"
  /\ LET found == SelectSeq(items, LAMBDA i : Matches(i, sweep.userId))
         tasks == RevokeTasks(found, jwtExpiresIn)
     IN  sweep' =
           IF found = <<>> THEN [sweep EXCEPT !.pc = "resolved", !.logged = "none found"]
           ELSE [sweep EXCEPT !.pc = "revoking", !.queue = tasks,
                              !.logged = IF Len(tasks) < Len(found) THEN "skipped" ELSE "none"]
  /\ UNCHANGED <<items, jwtExpiresIn, revoked, lastTtl, ops>>

\* redis executes the next SETEX of the invocation
SweepSetex ==
  /\ sweep.pc = "revoking" /\ sweep.queue # <<>>
  /\ LET task == Head(sweep.queue)
     IN  /\ revoked' = [revoked EXCEPT ![RevocationKey(task.tokenId)] =
                          [value |-> "1", ttl |-> task.expiresIn]]
         /\ lastTtl' = [lastTtl EXCEPT ![task.tokenId] = task.expiresIn]
  /\ sweep' = [sweep EXCEPT !.queue = Tail(@)]
  /\ UNCHANGED <<items, jwtExpiresIn, ops>>

\* Promise.all(revokeTasks) resolves
SweepResolves ==
  /\ sweep.pc = "revoking" /\ sweep.queue = <<>>
  /\ sweep' = [sweep EXCEPT !.pc = "resolved"]
  /\ UNCHANGED <<items, jwtExpiresIn, revoked, lastTtl, ops>>

NextSweep ==
  \/ \E u \in Users : RevokeAllUserTokens(u) /\ UNCHANGED notSweepVars
  \/ FindReturns /\ UNCHANGED notSweepVars
  \/ SweepSetex /\ UNCHANGED notSweepVars
  \/ SweepResolves /\ UNCHANGED notSweepVars
  \/ \E o \in Ops, t \in Tokens :
        IsTokenRevoked(o, t) /\ UNCHANGED <<notSweepVars, sweepVars>>
  \/ \E o \in Ops : RedisGet(o) /\ UNCHANGED <<notSweepVars, sweepVars>>

SpecSweep == InitSweep /\ [][NextSweep]_vars

\* ------------------------------------------------- reconnecting the cache
\* initialize(): createClient with the reconnect settings of the
\* environment, then client.connect().
CreateClient(cfg) ==
  /\ socket.pc = "none"
  /\ socket' = [socket EXCEPT !.pc = "connecting", !.cfg = cfg]

\* A connection attempt fails: the client calls reconnectStrategy with the
\* number of attempts failed since it was last connected, and waits for the
\* delay returned or, on false, gives up.
ConnectFails(jitter) ==
  /\ socket.pc = "connecting"
  /\ LET answer == ReconnectStrategy(socket.calls, jitter, socket.cfg)
     IN  socket' = [socket EXCEPT !.pc = IF answer.retry THEN "waiting" ELSE "closed",
                                  !.retries = socket.calls, !.jitter = jitter,
                                  !.answer = answer, !.calls = @ + 1]

\* the delay is over: the next connection attempt starts
DelayElapsed ==
  /\ socket.pc = "waiting"
  /\ socket' = [socket EXCEPT !.pc = "connecting"]

\* a connection attempt succeeds: the count of failed attempts starts anew
SocketConnects ==
  /\ socket.pc = "connecting"
  /\ socket' = [IdleSocket EXCEPT !.pc = "ready", !.cfg = socket.cfg]

\* the connection is lost: the client reconnects
ConnectionLost ==
  /\ socket.pc = "ready"
  /\ socket' = [socket EXCEPT !.pc = "connecting"]

NextReconnect ==
  \/ \E cfg \in ReconnectSettings : CreateClient(cfg) /\ UNCHANGED notReconnectVars
  \/ \E j \in Jitters : ConnectFails(j) /\ UNCHANGED notReconnectVars
  \/ DelayElapsed /\ UNCHANGED notReconnectVars
  \/ SocketConnects /\ UNCHANGED notReconnectVars
  \/ ConnectionLost /\ UNCHANGED notReconnectVars

SpecReconnect == Init /\ [][NextReconnect]_vars

\* ------------------------------------------------------------ the throttler
\* throttleRequests(maxRequests, windowMs): the middleware is created.
ThrottleRequests(n) ==
  /\ maxRequests = 0
  /\ maxRequests' = n
  /\ UNCHANGED <<requestTimes, throttled, clock>>

RECURSIVE Recent(_, _)
\* requestTimes[key].filter((time) => now - time < windowMs)
Recent(times, now) ==
  IF times = <<>> THEN <<>>
  ELSE (IF now - Head(times) < WindowTicks THEN <<Head(times)>> ELSE <<>>)
       \o Recent(Tail(times), now)

\* requestTimes[key], or [] where the key is not set
TimesOf(key) == IF key \in DOMAIN requestTimes THEN requestTimes[key] ELSE <<>>

\* requestTimes[key] = times
SetTimes(key, times) ==
  [k \in DOMAIN requestTimes \cup {key} |-> IF k = key THEN times ELSE requestTimes[k]]

\* The middleware handles request r of the given key: with fewer than
\* maxRequests timestamps in the window the request is recorded and passed
\* on; otherwise a timer is set for the time the oldest timestamp leaves the
\* window.
Throttle(r, key) ==
  /\ maxRequests > 0
  /\ throttled[r].pc = "idle"
  /\ \A x \in DOMAIN throttled : x < r => throttled[x].pc # "idle"
  /\ LET now  == clock
         kept == Recent(TimesOf(key), now)
     IN  IF Len(kept) >= maxRequests
         THEN LET delay == WindowTicks - (now - kept[1])
              IN  /\ requestTimes' = SetTimes(key, kept)
                  /\ throttled' = [throttled EXCEPT ![r] =
                        [pc |-> "delayed", key |-> key,
                         due |-> now + (IF delay > 0 THEN delay ELSE 0), at |-> 0]]
         ELSE /\ requestTimes' = SetTimes(key, Append(kept, now))
              /\ throttled' = [throttled EXCEPT ![r] =
                    [pc |-> "forwarded", key |-> key, due |-> 0, at |-> now]]
  /\ UNCHANGED <<maxRequests, clock>>

\* The timer of the delayed request r fires: unless the request is gone
\* (aborted, or its response already started) the time is recorded and the
\* request is passed on.
TimerFires(r, gone) ==
  /\ throttled[r].pc = "delayed"
  /\ clock >= throttled[r].due
  /\ IF gone
     THEN /\ throttled' = [throttled EXCEPT ![r].pc = "dropped"]
          /\ UNCHANGED requestTimes
     ELSE /\ requestTimes' = SetTimes(throttled[r].key,
                                      Append(TimesOf(throttled[r].key), clock))
          /\ throttled' = [throttled EXCEPT ![r].pc = "forwarded", ![r].at = clock]
  /\ UNCHANGED <<maxRequests, clock>>

\* Time passes; a timer that is due fires before the clock moves on.
ClockTicks ==
  /\ clock < MaxClock
  /\ \A r \in DOMAIN throttled :
       throttled[r].pc = "delayed" => throttled[r].due > clock
  /\ clock' = clock + 1
  /\ UNCHANGED <<requestTimes, maxRequests, throttled>>

NextThrottle ==
  \/ \E n \in ThrottleLimits : ThrottleRequests(n) /\ UNCHANGED notThrottleVars
  \/ \E r \in DOMAIN throttled, key \in ThrottleKeys :
        Throttle(r, key) /\ UNCHANGED notThrottleVars
  \/ \E r \in DOMAIN throttled, gone \in BOOLEAN :
        TimerFires(r, gone) /\ UNCHANGED notThrottleVars
  \/ ClockTicks /\ UNCHANGED notThrottleVars

SpecThrottle == Init /\ [][NextThrottle]_vars

\* =================================================================== properties
\* the transport request of call c ends in this step
AttemptReturns(c) == calls[c].pc = "attempt" /\ calls'[c].pc # "attempt"

\* a call that is done stays as it is: it settles once
SettlesOnce(c) == calls[c].pc = "done" => calls'[c] = calls[c]

\* the latest transport outcome of the (new) state is a response below 500
AnsweredBelow500(c) == calls'[c].last > 0 /\ calls'[c].last < 500

\* C1 as stated: for an httpRequest by absolute URL that its breaker let
\* through, when the first attempt failed retryably and the second attempt
\* returns a status below 500, the call resolves with that second response
\* and the transport has been invoked exactly twice.
C1_AsStated ==
  [][\A c \in Calls :
       /\ SettlesOnce(c)
       /\ (calls[c].via = "host" /\ AttemptReturns(c) /\ calls[c].invocations = 2
           /\ AnsweredBelow500(c))
          => /\ calls'[c].pc = "done"
             /\ calls'[c].invocations = 2
             /\ calls'[c].result = Response(calls'[c].last, 2)]_vars

\* C1 amended: the same, for a call the breaker's invocation timeout has not
\* failed before the second attempt returns.
C1_RetryThenSucceed ==
  [][\A c \in Calls :
       /\ SettlesOnce(c)
       /\ (calls[c].via = "host" /\ AttemptReturns(c) /\ calls[c].invocations = 2
           /\ AnsweredBelow500(c) /\ ~calls[c].timedOut)
          => /\ calls'[c].pc = "done"
             /\ calls'[c].invocations = 2
             /\ calls'[c].result = Response(calls'[c].last, 2)]_vars

C1_Witness ==
  \E c \in Calls :
    /\ calls[c].via = "host" /\ calls[c].pc = "done" /\ ~calls[c].timedOut
    /\ calls[c].invocations = 2 /\ calls[c].result = Response(200, 2)

\* C2 as stated: behind a breaker (by origin or by service name), a first
\* response with a status in 400..499 is what the call resolves with, after
\* exactly one transport invocation, and a 4xx response is never followed by
\* another attempt.
C2_AsStated ==
  [][\A c \in Calls :
       /\ SettlesOnce(c)
       /\ (Guarded(calls[c].via) /\ AttemptReturns(c)
           /\ calls'[c].last >= 400 /\ calls'[c].last < 500)
          => /\ calls'[c].pc = "done"
             /\ calls'[c].invocations = calls[c].invocations
             /\ calls[c].invocations = 1 =>
                  calls'[c].result = Response(calls'[c].last, 1)]_vars

\* C2 amended: the same, the response being the call's result unless the
\* breaker's invocation timeout has already failed the call.
C2_NoRetryOnClientError ==
  [][\A c \in Calls :
       /\ SettlesOnce(c)
       /\ (Guarded(calls[c].via) /\ AttemptReturns(c)
           /\ calls'[c].last >= 400 /\ calls'[c].last < 500)
          => /\ calls'[c].pc = "done"
             /\ calls'[c].invocations = calls[c].invocations
             /\ (calls[c].invocations = 1 /\ ~calls[c].timedOut) =>
                  calls'[c].result = Response(calls'[c].last, 1)
             /\ calls[c].timedOut => calls'[c].result = calls[c].result]_vars

C2_Witness ==
  /\ \E c \in Calls : /\ calls[c].via = "host" /\ calls[c].pc = "done"
                      /\ calls[c].invocations = 1 /\ calls[c].result = Response(404, 1)
  /\ \E c \in Calls : /\ calls[c].via = "service" /\ calls[c].pc = "done"
                      /\ calls[c].invocations = 1 /\ calls[c].result = Response(404, 1)

\* the parts of C3 that bound the attempts: at most 1 + DEFAULT_RETRIES
\* transport invocations per call, and an attempt after the first one only
\* when every attempt before it failed retryably (on the fallback path: was
\* rejected by axios, which there refuses every status outside 200..299)
AttemptsBounded ==
  \A c \in Calls :
    /\ calls[c].invocations <= 3
    /\ calls[c].pc = "attempt" =>
         /\ Len(calls[c].errors) = calls[c].invocations - 1
         /\ \A i \in 1..Len(calls[c].errors) :
              \/ calls[c].errors[i].outcome = 0
              \/ calls[c].errors[i].outcome >= 500
              \/ /\ calls[c].via = "fallback"
                 /\ ~(calls[c].errors[i].outcome \in 200..299)

\* every attempt of the finished call failed: its last outcome is retryable
Exhausted(c) ==
  /\ calls[c].pc = "done" /\ calls[c].via \in {"host", "service", "fallback"}
  /\ (calls[c].last = 0 \/ calls[c].last >= 500)

\* the thrown form of transport outcome o of attempt k
ErrorOf(o, k) ==
  [kind |-> "error", status |-> o, err |-> IF o = 0 THEN "NET" ELSE "HTTP",
   names |-> "none", attempt |-> k]

FailedRetryably(c) ==
  /\ calls[c].pc = "done" /\ calls[c].result.kind = "error"
  /\ calls[c].result.err \in {"HTTP", "NET"}

NFailed == Cardinality({c \in Calls : FailedRetryably(c)})

\* call c is made in this step
Issued(c) == calls[c].pc = "idle" /\ calls'[c].pc # "idle"

\* the circuit-open error of httpRequest / ProxyClient.request for target t
CircuitOpenFor(t) ==
  [kind |-> "error", status |-> 0, err |-> "CIRCUIT_OPEN", names |-> t, attempt |-> 0]

C5_OpenRejects ==
  [][\A c \in Calls :
       (Issued(c) /\ Guarded(calls'[c].via)
        /\ calls'[c].target \in DOMAIN Registry(calls'[c].via)
        /\ Registry(calls'[c].via)[calls'[c].target].state = "open")
       => /\ calls'[c].pc = "done"
          /\ calls'[c].invocations = 0
          /\ calls'[c].result = CircuitOpenFor(calls'[c].target)]_vars

C5_Witness ==
  \E c \in Calls :
    /\ calls[c].via = "host" /\ calls[c].pc = "done" /\ calls[c].invocations = 0
    /\ calls[c].result = CircuitOpenFor(calls[c].target)
    /\ hostBreakers[calls[c].target].state = "open"

BreakerOf(reg, t) == IF t \in DOMAIN reg THEN reg[t] ELSE NoBreaker

\* C6: a step of a call (made, answered, retried, timed out or refused)
\* leaves the breaker of every other target as it is: its state, its
\* pending-trial flag and its rolling window.
C6_TargetIsolation ==
  [][\A c \in Calls :
       calls'[c] # calls[c] =>
         /\ \A o \in Origins :
              (calls'[c].via # "host" \/ calls'[c].target # o)
              => BreakerOf(hostBreakers', o) = BreakerOf(hostBreakers, o)
         /\ \A sv \in Services :
              (calls'[c].via # "service" \/ calls'[c].target # sv)
              => BreakerOf(breakers', sv) = BreakerOf(breakers, sv)]_vars

C6_Witness ==
  /\ DOMAIN hostBreakers = Origins
  /\ \E a \in Origins, b \in Origins :
       /\ hostBreakers[a].state = "open"
       /\ hostBreakers[b].state = "closed" /\ hostBreakers[b].window # <<>>

\* C7: every identity that has been called has exactly one breaker, every
\* call to it was fired on that breaker, and a breaker in a registry is never
\* removed or replaced.
C7_OneBreakerPerIdentity ==
  /\ [](/\ nBreakers = Cardinality(DOMAIN hostBreakers) + Cardinality(DOMAIN breakers)
        /\ \A c \in Calls :
             Guarded(calls[c].via) =>
               /\ calls[c].target \in DOMAIN Registry(calls[c].via)
               /\ Registry(calls[c].via)[calls[c].target].id = calls[c].bid)
  /\ [][/\ \A o \in DOMAIN hostBreakers :
             o \in DOMAIN hostBreakers' /\ hostBreakers'[o].id = hostBreakers[o].id
        /\ \A sv \in DOMAIN breakers :
             sv \in DOMAIN breakers' /\ breakers'[sv].id = breakers[sv].id]_vars

C7_Witness ==
  \E c \in Calls, d \in Calls :
    /\ c # d /\ Guarded(calls[c].via)
    /\ calls[c].via = calls[d].via /\ calls[c].target = calls[d].target
    /\ calls[c].pc = "attempt" /\ calls[d].pc = "attempt"
    /\ calls[c].bid = calls[d].bid

\* the parts of C8 about the breaker's statistics: a failed attempt that is
\* retried leaves every breaker as it is, and the step in which a call
\* resolves with a response counts no failure on its breaker
FailedAttemptsNotCounted ==
  \A c \in Calls :
    /\ (AttemptReturns(c) /\ calls'[c].pc = "backoff")
       => hostBreakers' = hostBreakers /\ breakers' = breakers
    /\ (AttemptReturns(c) /\ Guarded(calls[c].via) /\ calls'[c].result.kind = "resp")
       => Failures(Registry(calls[c].via)[calls[c].target])' =
            Failures(Registry(calls[c].via)[calls[c].target])

\* C8 as stated: a call by absolute URL with no other call under way on its
\* origin, answered 500, 500 and then 200, resolves once with the 200 response
\* after three transport requests and leaves the origin's breaker closed; and
\* the failed attempts of a call that resolves are no breaker failures.
C8_AsStated ==
  [][/\ FailedAttemptsNotCounted
     /\ \A c \in Calls :
          /\ SettlesOnce(c)
          /\ (calls[c].via = "host" /\ AttemptReturns(c) /\ calls[c].invocations = 3
              /\ calls'[c].last = 200 /\ calls[c].alone)
             => /\ calls'[c].pc = "done"
                /\ calls'[c].invocations = 3
                /\ calls'[c].result = Response(200, 3)
                /\ GetBreakerStates'[calls[c].target] = "closed"]_vars

\* C8 amended: the same, for a call the breaker's invocation timeout has not
\* failed before the third response arrives.
C8_EndToEnd ==
  [][/\ FailedAttemptsNotCounted
     /\ \A c \in Calls :
          /\ SettlesOnce(c)
          /\ (calls[c].via = "host" /\ AttemptReturns(c) /\ calls[c].invocations = 3
              /\ calls'[c].last = 200 /\ calls[c].alone /\ ~calls[c].timedOut)
             => /\ calls'[c].pc = "done"
                /\ calls'[c].invocations = 3
                /\ calls'[c].result = Response(200, 3)
                /\ GetBreakerStates'[calls[c].target] = "closed"]_vars

C8_Witness ==
  \E c \in Calls :
    /\ calls[c].via = "host" /\ calls[c].pc = "done" /\ calls[c].alone
    /\ ~calls[c].timedOut /\ calls[c].invocations = 3
    /\ calls[c].result = Response(200, 3)
    /\ GetBreakerStates[calls[c].target] = "closed"
    /\ Failures(hostBreakers[calls[c].target]) = 0

\* what a cache call gives its caller when it degrades: get null, set and
\* del nothing
Degraded(c) == cacheCalls[c].ret = (IF cacheCalls[c].op = "get" THEN "null" ELSE "void")

\* C9: a get, set or del made while the connection is down (isConnected
\* false or no client) or while the cache breaker is open returns at once,
\* get with null and set and del normally, without calling the breaker's fire
\* and without sending a command to the backend.
C9_FailAsMiss ==
  [][\A c \in CacheCalls :
       (/\ cacheCalls[c].pc = "idle" /\ cacheCalls'[c].pc # "idle"
        /\ (~isConnected \/ ~client \/ cacheBreaker.state = "open"))
       => /\ cacheCalls'[c].pc = "done"
          /\ cacheCalls'[c].ret = (IF cacheCalls'[c].op = "get" THEN "null" ELSE "void")
          /\ ~cacheCalls'[c].fired
          /\ cacheCalls'[c].commands = 0
          /\ cacheBreaker' = cacheBreaker]_vars

C9_Witness ==
  /\ isConnected /\ client /\ cacheBreaker.state = "open"
  /\ \E c \in CacheCalls, d \in CacheCalls :
       /\ cacheCalls[c].pc = "done" /\ cacheCalls[c].op = "get"
       /\ cacheCalls[c].fired /\ Degraded(c)
       /\ cacheCalls[d].pc = "done" /\ cacheCalls[d].op = "set"
       /\ ~cacheCalls[d].fired /\ cacheCalls[d].commands = 0
       /\ cacheCalls[d].ret = "void"

\* C10: no get, set or del ever rejects; a call whose command failed, whose
\* stored value did not parse, that the breaker timed out or that the breaker
\* refused gives get null and set and del a normal return.
C10_NeverPropagates ==
  \A c \in CacheCalls :
    /\ cacheCalls[c].ret # "threw"
    /\ cacheCalls[c].pc = "done" => cacheCalls[c].ret \in {"null", "value", "void"}
    /\ (cacheCalls[c].pc = "done" /\ cacheCalls[c].reply \in {"error", "garbage"}) => Degraded(c)
    /\ cacheCalls[c].timedOut => Degraded(c)
    /\ (cacheCalls[c].pc = "done" /\ cacheCalls[c].commands = 0) => Degraded(c)
    /\ cacheCalls[c].ret = "value" => cacheCalls[c].op = "get" /\ cacheCalls[c].reply = "hit"

C10_Witness ==
  \E c \in CacheCalls, d \in CacheCalls :
    /\ cacheCalls[c].pc = "done" /\ cacheCalls[c].op = "get"
    /\ cacheCalls[c].reply = "garbage" /\ cacheCalls[c].ret = "null"
    /\ cacheCalls[d].op = "set" /\ cacheCalls[d].timedOut /\ cacheCalls[d].ret = "void"

\* ---- rate limiters
\* request r is answered (or passed on) in this step
Completes(r) == reqs[r].pc # "done" /\ reqs'[r].pc = "done"

\* request r's consume is executed by redis in this step
Consumed(r) == reqs[r].pc = "consume" /\ reqs'[r].pc # "consume" /\ store' # store

\* a rateBot request that no exemption and no user-agent rule applies to
Plain(q) ==
  /\ q.mw = "rateBot" /\ q.prod
  /\ q.path = <<"/api", "/users", "x">>
  /\ q.ua = <<"c", "u", "r", "l">>

MainKey(q) == <<"rl_main", q.actor>>
BurstKey(q) == <<q.proc, q.actor>>

StoreUnreachableFor(r) ==
  \/ reqs[r].pc = "ready" /\ redisReady[reqs[r].mw] = "rejected"
  \/ reqs[r].pc \in {"consume", "block"} /\ ~storeUp

\* C14 as stated: a request that finds the store unreachable is passed on
\* with a warning logged when the policy is fail-open, and is answered 503
\* and not passed on when the policy is fail-closed.
C14_AsStated ==
  [][\A r \in Reqs :
       (Completes(r) /\ StoreUnreachableFor(r)) =>
         /\ policy = "fail-open" => reqs'[r].nexted /\ reqs'[r].logged = "warn"
         /\ policy = "fail-closed" => reqs'[r].status = 503 /\ ~reqs'[r].nexted]_vars

\* the time to live, in milliseconds, of the key that request q was
\* rejected on
MsLeft(q) ==
  IF q.by = "rl_burst" THEN memory[<<q.proc, q.actor>>].ttl * (1000 \div TicksPerSecond)
  ELSE store[<<q.by, q.actor>>].ttl * (1000 \div TicksPerSecond)

\* C15: when rateBot or perEndpointLimiter answers 429, the Retry-After
\* header is the time until the key of the rejecting limiter expires, in
\* seconds rounded up; it equals the retry-after of the body and is at
\* least 1.
C15_RetryHint ==
  [][\A r \in Reqs :
       (Completes(r) /\ reqs'[r].status = 429) =>
         /\ reqs'[r].header = reqs'[r].body
         /\ reqs'[r].header >= 1
         /\ reqs'[r].header * 1000 >= MsLeft(reqs[r])'
         /\ (reqs'[r].header - 1) * 1000 < MsLeft(reqs[r])']_vars

C15_Witness ==
  \E r \in Reqs, x \in Reqs :
    /\ reqs[r].pc = "done" /\ reqs[r].status = 429 /\ reqs[r].mw = "perEndpoint"
    /\ reqs[r].header = 2 /\ reqs[r].body = 2
    /\ MsLeft(reqs[r]) > 1000 /\ MsLeft(reqs[r]) < 2000
    /\ reqs[x].pc = "done" /\ reqs[x].status = 429 /\ reqs[x].header = 1
    /\ MsLeft(reqs[x]) < 1000

BotAgents == {<<"x", "B", "o", "t">>, <<"S", "P", "I", "D", "E", "R">>,
              <<"c", "r", "a", "w", "l", "e", "r", "4">>}

\* request r arrives at rateBot in this step
ArrivesAtRateBot(r) ==
  /\ reqs[r].pc \in {"idle", "done"} /\ reqs'[r].pc # "idle"
  /\ reqs'[r] # reqs[r] /\ reqs'[r].mw = "rateBot"

\* C16 as stated: a request whose User-Agent contains bot, crawler or
\* spider in any case is answered 403 and not passed on, in every
\* environment and on every path, with no point consumed.
C16_AsStated ==
  [][\A r \in Reqs :
       (ArrivesAtRateBot(r) /\ reqs'[r].ua \in BotAgents) =>
         /\ reqs'[r].pc = "done" /\ reqs'[r].status = 403 /\ ~reqs'[r].nexted
         /\ store' = store /\ memory' = memory]_vars

\* C16 amended: in production and on a path that does not start with
\* /api/auth such a request is answered 403 at once, not passed on, with no
\* point consumed and without waiting for the store; in another environment
\* or on a path under /api/auth it is passed on.
C16_BotsRejected ==
  [][\A r \in Reqs :
       (ArrivesAtRateBot(r) /\ reqs'[r].ua \in BotAgents) =>
         /\ reqs'[r].pc = "done"
         /\ store' = store /\ memory' = memory
         /\ (reqs'[r].prod /\ reqs'[r].path # <<"/api", "/auth", "/login">>)
              => reqs'[r].status = 403 /\ ~reqs'[r].nexted
         /\ (~reqs'[r].prod \/ reqs'[r].path = <<"/api", "/auth", "/login">>)
              => reqs'[r].status = 0 /\ reqs'[r].nexted]_vars

C16_Witness ==
  \E r \in Reqs, x \in Reqs :
    /\ reqs[r].mw = "rateBot" /\ reqs[r].ua = <<"S", "P", "I", "D", "E", "R">>
    /\ reqs[r].prod /\ reqs[r].pc = "done" /\ reqs[r].status = 403 /\ ~reqs[r].nexted
    /\ redisReady["rateBot"] = "rejected"
    /\ reqs[x].mw = "rateBot" /\ reqs[x].ua = <<"x", "B", "o", "t">>
    /\ reqs[x].prod /\ reqs[x].path = <<"/api", "/auth", "/login">>
    /\ reqs[x].pc = "done" /\ reqs[x].nexted

\* C17: a request that rateBot handles outside production, or whose path
\* starts with /api/auth, is passed on in the step in which it arrives,
\* whatever the state of the store, and leaves every counter of the window
\* and the burst limiter as it was.
C17_Exemptions ==
  [][\A r \in Reqs :
       (ArrivesAtRateBot(r)
        /\ (~reqs'[r].prod \/ reqs'[r].path = <<"/api", "/auth", "/login">>)) =>
         /\ reqs'[r].pc = "done" /\ reqs'[r].nexted /\ reqs'[r].status = 0
         /\ reqs'[r].header = 0 /\ reqs'[r].logged = "none"
         /\ store' = store /\ memory' = memory /\ admitted' = admitted]_vars

C17_Witness ==
  \E r \in Reqs, x \in Reqs :
    /\ reqs[r].mw = "rateBot" /\ ~reqs[r].prod /\ reqs[r].path = <<"/api", "/users", "x">>
    /\ reqs[r].pc = "done" /\ reqs[r].nexted
    /\ reqs[x].mw = "rateBot" /\ reqs[x].prod /\ reqs[x].path = <<"/api", "/auth", "/login">>
    /\ reqs[x].ua = <<"c", "u", "r", "l">> /\ reqs[x].pc = "done" /\ reqs[x].nexted
    /\ ~storeUp
    /\ store[<<"rl_main", reqs[x].actor>>].consumed = MainPoints

\* the limiter the rules give a path
RuleFor(path) ==
  IF path = <<"/api", "/users", "x">> THEN "endpoint_users"
  ELSE IF path = <<"/api", "/adventures">> THEN "endpoint_adventures"
  ELSE "none"

\* C18: perEndpointLimiter applies to a request the limiter of the rule
\* whose prefix its path starts with, and a step of the request changes no
\* counter but that limiter's counter for the actor; a request whose path
\* starts with no prefix is passed on in the step in which it arrives,
\* whatever the state of the store, and changes no counter.
C18_PerEndpoint ==
  [][\A r \in Reqs :
       /\ (reqs[r].pc \in {"idle", "done"} /\ reqs'[r] # reqs[r]
           /\ reqs'[r].mw = "perEndpoint") =>
            /\ reqs'[r].limiter = RuleFor(reqs'[r].path)
            /\ store' = store /\ memory' = memory
            /\ RuleFor(reqs'[r].path) = "none"
                 => reqs'[r].pc = "done" /\ reqs'[r].nexted /\ reqs'[r].status = 0
            /\ RuleFor(reqs'[r].path) # "none" => reqs'[r].pc = "ready"
       /\ (reqs[r].mw = "perEndpoint" /\ reqs[r].pc \in {"ready", "consume", "block"}
           /\ reqs'[r] # reqs[r]) =>
            /\ reqs'[r].limiter = RuleFor(reqs[r].path)
            /\ memory' = memory
            /\ \A k \in DOMAIN store :
                 k # <<RuleFor(reqs[r].path), reqs[r].actor>> => store'[k] = store[k]]_vars

C18_Witness ==
  \E r \in Reqs, x \in Reqs :
    /\ reqs[r].mw = "perEndpoint" /\ reqs[r].path = <<"/api", "/adventures">>
    /\ reqs[r].pc = "done" /\ reqs[r].nexted /\ reqs[r].logged = "none"
    /\ store[<<"endpoint_users", reqs[r].actor>>].consumed > UsersPoints
    /\ store[<<"endpoint_adventures", reqs[r].actor>>].consumed \in 1..AdventuresPoints
    /\ reqs[x].mw = "perEndpoint" /\ reqs[x].path = <<"/health">>
    /\ reqs[x].pc = "done" /\ reqs[x].nexted /\ ~storeUp

\* the state opossum reports for breaker b
StateOf(b) == IF b.state = "open" THEN "open"
              ELSE IF b.state = "halfOpen" THEN "halfOpen" ELSE "closed"

\* C19 as stated: getBreakerStates() has exactly one entry for every origin
\* and every service that has been called through a breaker, and the value
\* of the entry is the current state of that breaker.
C19_AsStated ==
  /\ DOMAIN GetBreakerStates = DOMAIN hostBreakers \cup DOMAIN breakers
  /\ \A o \in DOMAIN hostBreakers : GetBreakerStates[o] = StateOf(hostBreakers[o])
  /\ \A v \in DOMAIN breakers : GetBreakerStates[v] = StateOf(breakers[v])

\* C20: isTokenRevoked(t) returns true exactly when the key of t is in the
\* store, which is from a revokeToken(t, ttl) with ttl > 0 until ttl seconds
\* later: SETEX sets the time to live of that key to ttl and touches no
\* other key, every second takes one off, a key is in the store only with a
\* time to live in (0, ttl], and a token that was never revoked has no key.
C20_RevocationRoundTrip ==
  [][/\ \A t \in Tokens :
          /\ revoked[<<"revoked_token:", t>>].ttl \in 0 .. lastTtl[t]
          /\ revoked[<<"revoked_token:", t>>].ttl > 0
               <=> revoked[<<"revoked_token:", t>>].value = "1"
     /\ \A o \in Ops :
          /\ (ops[o].pc = "sent" /\ ops[o].op = "check" /\ ops'[o].pc = "done") =>
               /\ ops'[o].result \in {"true", "false"}
               /\ ops'[o].result = "true"
                    <=> revoked[<<"revoked_token:", ops[o].token>>].ttl > 0
               /\ revoked' = revoked
          /\ (ops[o].pc = "sent" /\ ops[o].op = "revoke" /\ ops[o].ttl > 0
              /\ ops'[o].pc = "done") =>
               /\ revoked'[<<"revoked_token:", ops[o].token>>] =
                    [value |-> "1", ttl |-> ops[o].ttl]
               /\ \A t \in Tokens :
                    t # ops[o].token =>
                      revoked'[<<"revoked_token:", t>>] = revoked[<<"revoked_token:", t>>]
     /\ (\A o \in Ops : ops'[o] = ops[o]) =>
          \A t \in Tokens :
            revoked'[<<"revoked_token:", t>>].ttl =
              IF revoked[<<"revoked_token:", t>>].ttl > 0
              THEN revoked[<<"revoked_token:", t>>].ttl - 1 ELSE 0]_vars

C20_Witness ==
  \E a \in Ops, b \in Ops, c \in Ops, d \in Ops :
    /\ ops[a].op = "revoke" /\ ops[a].token = "t1" /\ ops[a].ttl = 2 /\ ops[a].result = "void"
    /\ ops[b].op = "check" /\ ops[b].token = "t1" /\ ops[b].result = "true"
    /\ ops[c].op = "check" /\ ops[c].token = "t2" /\ ops[c].result = "false"
    /\ ops[d].op = "check" /\ ops[d].token = "t1" /\ ops[d].result = "false"
    /\ revoked[<<"revoked_token:", "t1">>] = [value |-> "nil", ttl |-> 0]

\* item i is a token item of user u that is not deleted
IsLiveTokenOf(i, u) ==
  i.userId = u /\ i.status # "deleted" /\ (i.type = "token" \/ i.category = "token")

\* the token id of item i: its itemId, else its jti attribute, else none
TokenIdOf(i) ==
  IF i.itemId # "" THEN i.itemId ELSE IF i.attrs # <<>> THEN "t2" ELSE ""

\* the expiry item i states, in seconds; 0 when it states none that is
\* a positive duration or a date at least one second ahead
OwnExpiry(i) ==
  IF i.attrs = <<>> THEN 0
  ELSE IF i.attrs[1].value = Str(<<"2", "h">>) THEN 7200
  ELSE IF i.attrs[1].value = Num(5) THEN 2
  ELSE IF i.attrs[1].value = Str(<<"0">>) THEN 1
  ELSE IF i.attrs[1].value = Str(<<"t", "2">>) THEN 90
  ELSE 0

ItemsOf == {items[n] : n \in 1..Len(items)}

\* the invocation resolves in this step
SweepDone == sweep.pc # "resolved" /\ sweep'.pc = "resolved"

\* C21 as stated: when revokeAllUserTokens(u) resolves, every token item of u
\* that is not deleted is revoked with its own expiry, or with 7 days when it
\* states none; and no step of the invocation changes the answer for a
\* deleted token item of u, for a non-token item or for another user's item.
C21_AsStated ==
  [][/\ SweepDone =>
          \A i \in ItemsOf :
            (IsLiveTokenOf(i, sweep.userId) /\ TokenIdOf(i) # "") =>
              revoked'[<<"revoked_token:", TokenIdOf(i)>>] =
                [value |-> "1",
                 ttl |-> IF OwnExpiry(i) > 0 THEN OwnExpiry(i) ELSE 604800]
     /\ sweep.pc = "revoking" =>
          \A i \in ItemsOf :
            (~IsLiveTokenOf(i, sweep.userId) /\ TokenIdOf(i) # "") =>
              revoked'[<<"revoked_token:", TokenIdOf(i)>>] =
                revoked[<<"revoked_token:", TokenIdOf(i)>>]]_vars

\* the default expiry: JWT_EXPIRES_IN when it is set, 7 days otherwise
DefaultExpiry == IF jwtExpiresIn = <<"1", "h">> THEN 3600 ELSE 604800

\* C21 amended: revokeAllUserTokens(u) revokes exactly the token ids of u's
\* token items that are not deleted: every SETEX it sends sets the key of
\* the token id of such an item to '1' with that item's own expiry, or with
\* the default (JWT_EXPIRES_IN, else 7 days) when the item states none, and
\* leaves every other key as it was; when it resolves the key of each such
\* item is in the store; with no such item it resolves without a command.
C21_RevokeAll ==
  [][/\ (sweep.pc = "revoking" /\ revoked' # revoked) =>
          \E i \in ItemsOf :
            /\ IsLiveTokenOf(i, sweep.userId) /\ TokenIdOf(i) # ""
            /\ revoked'[<<"revoked_token:", TokenIdOf(i)>>] =
                 [value |-> "1",
                  ttl |-> IF OwnExpiry(i) > 0 THEN OwnExpiry(i) ELSE DefaultExpiry]
            /\ \A t \in Tokens :
                 t # TokenIdOf(i) =>
                   revoked'[<<"revoked_token:", t>>] = revoked[<<"revoked_token:", t>>]
     /\ SweepDone =>
          /\ \A i \in ItemsOf :
               (IsLiveTokenOf(i, sweep.userId) /\ TokenIdOf(i) # "") =>
                 revoked'[<<"revoked_token:", TokenIdOf(i)>>].value = "1"
          /\ (\A i \in ItemsOf : ~IsLiveTokenOf(i, sweep.userId)) =>
               sweep.pc = "finding" /\ revoked' = revoked
     /\ sweep.pc # "revoking" => (revoked' = revoked \/ sweep' = sweep)]_vars

C21_Witness ==
  /\ Len(items) = 2
  /\ items[1].itemId = "t1" /\ IsLiveTokenOf(items[1], "u1")
  /\ items[2].itemId = "t2" /\ items[2].userId = "u1" /\ items[2].status = "deleted"
  /\ items[2].type = "token"
  /\ sweep.pc = "resolved" /\ sweep.userId = "u1"
  /\ revoked[<<"revoked_token:", "t1">>] = [value |-> "1", ttl |-> 7200]
  /\ revoked[<<"revoked_token:", "t2">>].value # "1"
  /\ \E a \in Ops, b \in Ops :
       /\ ops[a].op = "check" /\ ops[a].token = "t1" /\ ops[a].result = "true"
       /\ ops[b].op = "check" /\ ops[b].token = "t2" /\ ops[b].result = "false"

\* the events of window w whose kind is in ks
NumberOf(w, ks) == Cardinality({i \in DOMAIN w : w[i].kind \in ks})

\* the step records one more event, of a kind in ks, in the window of b
Records(b, b2, ks) ==
  /\ Len(b2.window) = Len(b.window) + 1
  /\ b2.window[Len(b2.window)].kind \in ks

\* the failure percentage over window w exceeds the threshold of 50
OverThreshold(w) ==
  NumberOf(w, {"failure", "timeout"}) * 100 > 50 * NumberOf(w, {"fire", "rejected"})

\* a call settles with a response in this step
SomeCallSucceeds ==
  \E c \in Calls : calls[c].pc # "done" /\ calls'[c].pc = "done"
                   /\ calls'[c].result.kind = "resp"

\* the breaker of an origin goes from b to b2 along one of the four
\* transitions, and the listener of the event is called
Transition(b, b2) ==
  \/ /\ b.state = "closed" /\ b2.state = "open"
     /\ Records(b, b2, {"failure", "timeout"}) /\ OverThreshold(b2.window)
     /\ b2.notified = "open"
  \/ /\ b.state = "open" /\ b2.state = "halfOpen"
     /\ calls' = calls /\ b2.window = b.window /\ b2.pendingClose
     /\ b2.notified = "halfOpen"
  \/ /\ b.state = "halfOpen" /\ b2.state = "closed"
     /\ Records(b, b2, {"success"}) /\ SomeCallSucceeds
     /\ b2.notified = "close"
  \/ /\ b.state = "halfOpen" /\ b2.state = "open"
     /\ Records(b, b2, {"failure", "timeout"})
     /\ b2.notified = "open"

C23_AsStated ==
  \A c \in CacheCalls : cacheCalls[c].commands > 0 => cacheCalls[c].fired

\* C24 as stated: on each of the three paths (breaker by origin, breaker by
\* service name, fallback without breaker) a transport response with a
\* status below 500 is what the call resolves with, no attempt follows it,
\* and an attempt is retried only after a transport failure or a response
\* with status >= 500.  Calls the breaker's invocation timeout has already
\* failed are left aside.
C24_AsStated ==
  [][\A c \in Calls :
       (calls[c].via \in {"host", "service", "fallback"} /\ AttemptReturns(c)
        /\ ~calls[c].timedOut)
       => /\ AnsweredBelow500(c) =>
               /\ calls'[c].pc = "done"
               /\ calls'[c].result = Response(calls'[c].last, calls[c].invocations)
          /\ calls'[c].pc = "backoff" =>
               (calls'[c].last = 0 \/ calls'[c].last >= 500)]_vars

\* C25: a call on the fallback path (no serviceName, URL without origin)
\* runs outside every breaker: none of its steps creates a breaker or changes
\* the state or the statistics of an existing one, it holds no breaker, and
\* it is never rejected as circuit-open or by a breaker's timeout, whatever
\* the states of the existing breakers.
C25_FallbackHasNoBreaker ==
  [][\A c \in Calls :
       (calls'[c].via = "fallback" /\ calls'[c] # calls[c])
       => /\ hostBreakers' = hostBreakers
          /\ breakers' = breakers
          /\ nBreakers' = nBreakers
          /\ calls'[c].bid = 0
          /\ calls'[c].result.err \notin {"CIRCUIT_OPEN", "EOPENBREAKER", "ETIMEDOUT"}]_vars

\* a fallback call has retried and resolved while the breaker of an origin
\* is open
C25_Witness ==
  \E c \in Calls :
    /\ calls[c].via = "fallback" /\ calls[c].pc = "done"
    /\ calls[c].invocations = 2 /\ calls[c].result = Response(200, 2)
    /\ \E o \in DOMAIN hostBreakers : hostBreakers[o].state = "open"
    /\ \E x \in Calls : x < c /\ calls[x].via = "host" /\ calls[x].pc = "done"

\* the breaker of call c before and after the step
TimedBreaker(c) == Registry(calls[c].via)[calls[c].target]
TimedBreakerNext(c) ==
  IF calls[c].via = "host" THEN hostBreakers'[calls[c].target]
  ELSE breakers'[calls[c].target]

\* the invocation timeout of call c elapses in this step
TimesOut(c) == ~calls[c].timedOut /\ calls'[c].timedOut

\* what C26 says of the timeout itself: it can elapse while the action is
\* under way whether or not an attempt has failed; the call then rejects with
\* the breaker's timeout error, and the breaker counts one more timeout
\* failure and opens when its error rate is then over the threshold.
TimeoutFailsTheCall(c) ==
  TimesOut(c) =>
    /\ Guarded(calls[c].via) /\ calls[c].pc \in {"attempt", "backoff"}
    /\ calls'[c].result = Failure("ETIMEDOUT", 0, "none", 0)
    /\ CountIn(TimedBreakerNext(c).window, {"timeout"})
         = CountIn(TimedBreaker(c).window, {"timeout"}) + 1
    /\ CountIn(TimedBreakerNext(c).window, {"failure"})
         = CountIn(TimedBreaker(c).window, {"failure"})
    /\ (CountIn(TimedBreakerNext(c).window, {"failure", "timeout"}) * 100
          > 50 * CountIn(TimedBreakerNext(c).window, {"fire", "rejected"}))
       => TimedBreakerNext(c).state = "open"

\* C26 as stated: the invocation timeout fails the call as above, and a call
\* it has failed makes no further transport attempt.
C26_AsStated ==
  [][\A c \in Calls :
       /\ TimeoutFailsTheCall(c)
       /\ calls[c].timedOut => calls'[c].invocations = calls[c].invocations]_vars

\* C26 amended: the invocation timeout fails the call as above; the action
\* of the failed call runs on, retrying within its bound of three transport
\* invocations, but nothing it does afterwards changes the call's result or
\* any breaker.
C26_InvocationTimeout ==
  [][\A c \in Calls :
       /\ TimeoutFailsTheCall(c)
       /\ (calls[c].timedOut /\ calls'[c] # calls[c])
          => /\ calls'[c].invocations \in {calls[c].invocations, calls[c].invocations + 1}
             /\ calls'[c].invocations <= 3
             /\ calls'[c].result = calls[c].result
             /\ calls'[c].timedOut
             /\ hostBreakers' = hostBreakers /\ breakers' = breakers]_vars

\* a call timed out before any attempt had failed, its breaker opened on
\* that one failure, and the response that arrived afterwards was dropped
C26_Witness ==
  \E c \in Calls :
    /\ calls[c].via = "host" /\ calls[c].pc = "done" /\ calls[c].timedOut
    /\ calls[c].invocations = 1 /\ calls[c].last = 200
    /\ calls[c].result = Failure("ETIMEDOUT", 0, "none", 0)
    /\ hostBreakers[calls[c].target].state = "open"
    /\ CountIn(hostBreakers[calls[c].target].window, {"timeout"}) = 1
    /\ CountIn(hostBreakers[calls[c].target].window, {"failure"}) = 0

\* C27: reconnectStrategy returns false exactly when the number of failed
\* attempts it is called with exceeds the configured maximum (12 by
\* default); otherwise it returns min(maxDelay, min(maxDelay, 100 * 2^retries)
\* + jitter) with 0 <= jitter < 100, a delay of at most maxDelay (30000 ms by
\* default) and at least min(maxDelay, 100 * 2^retries); the client that
\* follows it gives up after maximum + 1 failed reconnect attempts.
C27_ReconnectPolicy ==
  LET r    == socket.retries
      cap  == socket.cfg.maxReconnectDelay
      most == socket.cfg.maxReconnectAttempts
      a    == socket.answer
      exp  == IF 100 * Pow2(r) < cap THEN 100 * Pow2(r) ELSE cap
  IN  socket.calls > 0 =>
        /\ a.retry <=> r <= most
        /\ a.retry =>
             /\ socket.jitter >= 0 /\ socket.jitter < 100
             /\ a.ms = (IF exp + socket.jitter < cap THEN exp + socket.jitter ELSE cap)
             /\ a.ms <= cap
             /\ a.ms >= exp
        /\ r <= most + 1 /\ socket.calls = r + 1
        /\ socket.pc = "closed" <=> ~a.retry
        /\ socket.pc = "closed" => r = most + 1

\* with the default settings, the strategy called after the 13th failed
\* attempt (retries = 12, the last one it answers with a delay) has drawn
\* the largest jitter and returned the capped delay
C27_Witness ==
  /\ socket.pc = "waiting" /\ socket.retries = 12 /\ socket.jitter = 99
  /\ socket.cfg.maxReconnectAttempts = 12 /\ socket.cfg.maxReconnectDelay = 30000
  /\ socket.answer = [retry |-> TRUE, ms |-> 30000]

\* the actor's rl_main key has taken every point of the window
WindowSpent(a) == store[<<"rl_main", a>>].consumed >= MainPoints

QuotaAccounted(a) ==
  /\ tally[a].passed + tally[a].burst = admitted[<<"rl_main", a>>]
  /\ admitted[<<"rl_main", a>>] <= MainPoints
  /\ admitted[<<"rl_main", a>>] <= store[<<"rl_main", a>>].consumed
  /\ tally[a].passed <= MainPoints - tally[a].burst
  /\ WindowSpent(a) => tally[a].passed = MainPoints - tally[a].burst

C29_AsStated ==
  (redisReady[mounted] = "rejected" /\ storeUp)
    ~> (\E r \in Reqs : reqs[r].pc = "consume")

\* the requests of key k passed on at a time from t up to, not including,
\* t + windowMs
ForwardedIn(k, t) ==
  {r \in DOMAIN throttled :
     /\ throttled[r].pc = "forwarded" /\ throttled[r].key = k
     /\ throttled[r].at >= t /\ throttled[r].at < t + WindowTicks}

\* C30 as stated: of the requests of one key, at most maxRequests are
\* passed on to the next handler within any interval of length windowMs,
\* those released by a timer included.
C30_AsStated ==
  \A k \in ThrottleKeys, t \in 0..MaxClock :
    maxRequests > 0 => Cardinality(ForwardedIn(k, t)) <= maxRequests

====
